---- MODULE Spec2Model ----
(***************************************************************************)
(* clippr: conversion of a video into size-bounded GIF chunks.             *)
(*                                                                         *)
(* The module models                                                       *)
(*   - convert (clippr/src/lib.rs): validation, initial decomposition, the *)
(*     scheduler loop over the segment queue, the final renames;           *)
(*   - auto_encode, reduce_params, resolve_color_index (src/strategy.rs):  *)
(*     the Adaptive Fitter and the Quality Ladder.                         *)
(*                                                                         *)
(* Abstractions.  Times are f64 seconds in the code; here they are exact   *)
(* integers counted in ticks, TicksPerHalfSec ticks making 0.5 s, the tick *)
(* chosen so fine that every halving the scheduler can perform is exact    *)
(* (as it is in binary floating point).  A ratio is the exact rational     *)
(* num/den; floor(w * sqrt(num/den)) is computed exactly with an integer   *)
(* square root.  The encoder and the prober are external: their results    *)
(* are nondeterministic choices over small sets.                           *)
(***************************************************************************)
EXTENDS Integers, Sequences, FiniteSets

(***************************************************************************)
(* Program constants (src/strategy.rs:5-9).                                *)
(***************************************************************************)
MAX_ATTEMPTS == 5
MIN_WIDTH == 240
MIN_FPS == 8
COLOR_STEPS == <<256, 128, 64, 32>>
\* SAFETY_MARGIN = 0.90 as the rational 9/10.
SAFETY_MARGIN == [num |-> 9, den |-> 10]

(***************************************************************************)
(* Bounds of the model.                                                    *)
(***************************************************************************)
\* Longest probed duration and longest chunk_secs, in half seconds.
MaxHalfSecs == 3

Max(a, b) == IF a >= b THEN a ELSE b
Min(a, b) == IF a <= b THEN a ELSE b

RECURSIVE Pow2AtLeast(_, _)
Pow2AtLeast(n, p) == IF p >= n THEN p ELSE Pow2AtLeast(n, 2 * p)

\* Ticks in half a second: a power of two >= MaxHalfSecs, so that a duration
\* of up to MaxHalfSecs half seconds halves exactly down to 0.5 s or less.
TicksPerHalfSec == Pow2AtLeast(MaxHalfSecs, 1)

\* MIN_SPLIT_DURATION = 0.5 s (clippr/src/lib.rs:14), in ticks.
MIN_SPLIT_DURATION == TicksPerHalfSec

(***************************************************************************)
(* Exact arithmetic standing for the f64 expressions of the code.          *)
(***************************************************************************)
RECURSIVE ISqrtBetween(_, _, _)
ISqrtBetween(n, lo, hi) ==
    IF lo >= hi THEN lo
    ELSE LET mid == (lo + hi + 1) \div 2
         IN  IF mid * mid <= n THEN ISqrtBetween(n, mid, hi)
                               ELSE ISqrtBetween(n, lo, mid - 1)

\* floor(sqrt(n)) for 0 <= n < 2^31.
ISqrt(n) == ISqrtBetween(n, 0, 46340)

\* floor(x * sqrt(ratio)): the square of x * sqrt(ratio) is x*x*num/den.
FloorMulSqrt(x, ratio) == ISqrt((x * x * ratio.num) \div ratio.den)

\* floor(x * ratio).
FloorMul(x, ratio) == (x * ratio.num) \div ratio.den

(***************************************************************************)
(* Quality Ladder (src/strategy.rs).                                       *)
(***************************************************************************)
None == [none |-> TRUE]
Some(v) == [none |-> FALSE, value |-> v]

EncodeSettings(w, f, ci) == [width |-> w, fps |-> f, color_index |-> ci]

\* A variant of resolve_color_index that compares with < instead of <=.
resolve_color_index_strict(requested_colors) ==
    LET hits == {i \in 1..Len(COLOR_STEPS) : COLOR_STEPS[i] < requested_colors}
    IN  IF hits = {} THEN 0
        ELSE (CHOOSE i \in hits : \A j \in hits : i <= j) - 1

\* COLOR_STEPS.iter().position(|&color| color <= requested).unwrap_or(0),
\* with 0-based indices as in the code.
resolve_color_index(requested_colors) ==
    LET hits == {i \in 1..Len(COLOR_STEPS) : COLOR_STEPS[i] <= requested_colors}
    IN  IF hits = {} THEN 0
        ELSE (CHOOSE i \in hits : \A j \in hits : i <= j) - 1

\* A variant of new_width without the clamp to MIN_WIDTH.
new_width_unclamped(settings, ratio) == FloorMulSqrt(settings.width, ratio)

\* ((width as f64) * ratio.sqrt()).max(MIN_WIDTH as f64) as u32: the maximum
\* is taken on the real value and the cast then truncates it.
new_width(settings, ratio) ==
    IF (settings.width * settings.width * ratio.num) \div ratio.den
           >= MIN_WIDTH * MIN_WIDTH
    THEN FloorMulSqrt(settings.width, ratio)
    ELSE MIN_WIDTH

\* ((fps as f64) * ratio).max(MIN_FPS as f64) as u32.
new_fps(settings, ratio) ==
    IF settings.fps * ratio.num >= MIN_FPS * ratio.den
    THEN FloorMul(settings.fps, ratio)
    ELSE MIN_FPS

\* A variant of reduce_params that scales width and fps in one step.
reduce_params_combined(settings, ratio) ==
    IF new_width(settings, ratio) < settings.width
    THEN Some(EncodeSettings(new_width(settings, ratio),
                             Min(settings.fps, new_fps(settings, ratio)),
                             settings.color_index))
    ELSE IF new_fps(settings, ratio) < settings.fps
    THEN Some(EncodeSettings(settings.width, new_fps(settings, ratio),
                             settings.color_index))
    ELSE IF settings.color_index + 1 < Len(COLOR_STEPS)
    THEN Some(EncodeSettings(settings.width, settings.fps,
                             settings.color_index + 1))
    ELSE None

\* A variant of reduce_params that reports exhaustion once width and fps
\* cannot move, without stepping the palette.
reduce_params_no_palette(settings, ratio) ==
    IF new_width(settings, ratio) < settings.width
    THEN Some(EncodeSettings(new_width(settings, ratio), settings.fps,
                             settings.color_index))
    ELSE IF new_fps(settings, ratio) < settings.fps
    THEN Some(EncodeSettings(settings.width, new_fps(settings, ratio),
                             settings.color_index))
    ELSE None

\* A variant of reduce_params that tries the frame rate before the width.
reduce_params_fps_first(settings, ratio) ==
    IF new_fps(settings, ratio) < settings.fps
    THEN Some(EncodeSettings(settings.width, new_fps(settings, ratio),
                             settings.color_index))
    ELSE IF new_width(settings, ratio) < settings.width
    THEN Some(EncodeSettings(new_width(settings, ratio), settings.fps,
                             settings.color_index))
    ELSE IF settings.color_index + 1 < Len(COLOR_STEPS)
    THEN Some(EncodeSettings(settings.width, settings.fps,
                             settings.color_index + 1))
    ELSE None

\* A variant of reduce_params whose palette step goes two entries down.
reduce_params_palette_jump(settings, ratio) ==
    IF new_width(settings, ratio) < settings.width
    THEN Some(EncodeSettings(new_width(settings, ratio), settings.fps,
                             settings.color_index))
    ELSE IF new_fps(settings, ratio) < settings.fps
    THEN Some(EncodeSettings(settings.width, new_fps(settings, ratio),
                             settings.color_index))
    ELSE IF settings.color_index + 1 < Len(COLOR_STEPS)
    THEN Some(EncodeSettings(settings.width, settings.fps,
                             Min(settings.color_index + 2,
                                 Len(COLOR_STEPS) - 1)))
    ELSE None

\* strategy.rs:31-59.
reduce_params(settings, ratio) ==
    IF new_width(settings, ratio) < settings.width
    THEN Some(EncodeSettings(new_width(settings, ratio), settings.fps,
                             settings.color_index))
    ELSE IF new_fps(settings, ratio) < settings.fps
    THEN Some(EncodeSettings(settings.width, new_fps(settings, ratio),
                             settings.color_index))
    ELSE IF settings.color_index + 1 < Len(COLOR_STEPS)
    THEN Some(EncodeSettings(settings.width, settings.fps,
                             settings.color_index + 1))
    ELSE None

(***************************************************************************)
(* State.                                                                  *)
(*   options, info, target_bytes, output_stem, initial, queue, temp_paths, *)
(*   temp_counter, segment, temp_path, params, size, outputs: the          *)
(*     arguments and locals of convert;                                    *)
(*   settings, attempt, ratio, reduced: the locals of auto_encode;         *)
(*   files: the files this run has put on disk, each with the time range   *)
(*     it renders;                                                         *)
(*   pc, error: where the run stands and the error it returned;            *)
(*   chunks, seg_encodes, fit_encodes, oversized_seen: history kept for    *)
(*     the properties (the segment behind each accepted temp path, the     *)
(*     encoder invocations made for the current segment and by the current *)
(*     auto_encode call, whether any encode came back oversized).          *)
(***************************************************************************)
VARIABLES options, info, target_bytes, output_stem,
          initial, queue, temp_paths,
          temp_counter, segment, temp_path, params, size, outputs,
          settings, attempt, ratio, reduced, files, pc, error,
          chunks, seg_encodes, fit_encodes, oversized_seen,
          ui, should_exit, channels, workers

\* The graphical front end (clippr/src/gui.rs): ui is the ClipprUi struct,
\* should_exit the window's exit flag, channels the mpsc channels created so
\* far and workers the conversion threads spawned so far, worker k sending
\* on channel k.
guiVars == <<ui, should_exit, channels, workers>>

vars == <<options, info, target_bytes, output_stem,
          initial, queue, temp_paths,
          temp_counter, segment, temp_path, params, size, outputs,
          settings, attempt, ratio, reduced, files, pc, error,
          chunks, seg_encodes, fit_encodes, oversized_seen, guiVars>>

\* The text of a message: which conversion it comes from and which of its
\* messages it is (progress line n, or the outcome).
Text(run, kind, n) == [run |-> run, kind |-> kind, n |-> n]

\* ConversionStatus (gui.rs:9-16).
Idle == [kind |-> "Idle", message |-> Text(0, "", 0)]
Running == [kind |-> "Running", message |-> Text(0, "", 0)]
Done == [kind |-> "Done", message |-> Text(0, "", 0)]
Failed(message) == [kind |-> "Failed", message |-> message]

\* ClipprUi::default() (gui.rs:36-51), with no thread spawned.
GuiDefault ==
    /\ ui = [input_path |-> None, log_lines |-> <<>>, status |-> Idle,
             log_receiver |-> None]
    /\ should_exit = FALSE
    /\ channels = <<>>
    /\ workers = <<>>

(***************************************************************************)
(* Inputs.                                                                 *)
(***************************************************************************)
\* max_size_mb counted in half bytes (1 half byte = 1/2097152 MB): 0 is
\* rejected, 1 is positive but below one byte, 200 is a budget of 100 bytes.
MaxSizeHalfBytes == {0, 1, 200}
\* The input path: a file, and a path that has no file stem.
InputPaths == {"v.mp4", ".."}
OptionWidths == {480, 200}
OptionFps == {15}
OptionColors == {256, 50}
\* Probed width, and probed frame rate in thousandths of a frame per second.
ProbedWidths == {1920, 240}
ProbedFramerates == {29970, 7500}
\* Sizes the encoder reports, in bytes.
EncoderSizes == {100, 101, 250, 5000}

Segment(start, duration) == [start_secs |-> start, duration_secs |-> duration]
NoSegment == Segment(0, 0)
EncodeParams(w, f, c, seg) ==
    [width |-> w, fps |-> f, colors |-> c,
     start_secs |-> seg.start_secs, duration_secs |-> seg.duration_secs]
NoParams == EncodeParams(0, 0, 0, NoSegment)
NoError == [kind |-> "none", attempts |-> 0]
Err(kind) == [kind |-> kind, attempts |-> 0]
TargetUnreachable(n) == [kind |-> "TargetUnreachable", attempts |-> n]
NoRatio == [num |-> 0, den |-> 1]

(***************************************************************************)
(* Paths (std::path as used by clippr/src/lib.rs:32-64).  A path is a      *)
(* string with "/" between its components; the paths of the model have no  *)
(* trailing "/" other than the root.                                       *)
(***************************************************************************)
Ok(v) == [ok |-> TRUE, value |-> v]
ErrResult(e) == [ok |-> FALSE, error |-> e]

Char(s, i) == SubSeq(s, i, i)

\* The last position of ch in s, 0 when there is none.
LastIndexOf(s, ch) ==
    LET hits == {i \in 1..Len(s) : Char(s, i) = ch}
    IN  IF hits = {} THEN 0 ELSE CHOOSE i \in hits : \A j \in hits : j <= i

\* Path::file_name: the last component, unless it is empty, "." or "..".
file_name(path) ==
    LET last == SubSeq(path, LastIndexOf(path, "/") + 1, Len(path))
    IN  IF last \in {"", ".", ".."} THEN None ELSE Some(last)

\* Option::unwrap_or_default on a file name.
unwrap_or_default(opt) == IF opt.none THEN "" ELSE opt.value

\* The path up to and including the "/" before its last component.
ParentPrefix(path) == SubSeq(path, 1, LastIndexOf(path, "/"))

\* Path::file_stem: the file name up to its last ".", or all of it when it
\* has no "." after its first character.
file_stem(path) ==
    IF file_name(path).none THEN None
    ELSE LET name == file_name(path).value
             dot == LastIndexOf(name, ".")
         IN  IF dot <= 1 THEN Some(name) ELSE Some(SubSeq(name, 1, dot - 1))

\* Path::with_extension: the file stem followed by "." and extension (by
\* nothing when extension is empty); a path without a file name is returned
\* unchanged.
with_extension(path, extension) ==
    IF file_stem(path).none THEN path
    ELSE ParentPrefix(path) \o file_stem(path).value
             \o (IF extension = "" THEN "" ELSE "." \o extension)

\* Path::with_file_name: the last component replaced by name; a path
\* without a file name has name pushed onto it.
with_file_name(path, name) ==
    IF ~file_name(path).none THEN ParentPrefix(path) \o name
    ELSE IF path = "" \/ Char(path, Len(path)) = "/" THEN path \o name
    ELSE path \o "/" \o name

Digit(d) == Char("0123456789", d + 1)

RECURSIVE Decimal(_)
Decimal(n) == IF n < 10 THEN Digit(n) ELSE Decimal(n \div 10) \o Digit(n % 10)

RECURSIVE Zeros(_)
Zeros(k) == IF k <= 0 THEN "" ELSE "0" \o Zeros(k - 1)

\* format!("{:0w$}", n): n in decimal, zero-padded to at least w digits.
ZeroPadded(n, w) == Zeros(w - Len(Decimal(n))) \o Decimal(n)

\* A variant of output_stem_from_args that keeps the extension of an
\* explicit output.
output_stem_from_args_kept(input, output) ==
    IF ~output.none THEN Ok(output.value)
    ELSE IF file_stem(input).none THEN ErrResult(Err("InvalidInput"))
    ELSE Ok(with_file_name(input, file_stem(input).value))

\* lib.rs:32-42.
output_stem_from_args(input, output) ==
    IF ~output.none THEN Ok(with_extension(output.value, ""))
    ELSE IF file_stem(input).none THEN ErrResult(Err("InvalidInput"))
    ELSE Ok(with_file_name(input, file_stem(input).value))

\* lib.rs:44-55.
chunk_output_path(stem, chunk_index, chunk_count) ==
    IF chunk_count = 1 THEN with_extension(stem, "gif")
    ELSE with_file_name(stem, unwrap_or_default(file_name(stem)) \o "_"
                                  \o ZeroPadded(chunk_index + 1, 3) \o ".gif")

\* A variant of temp_output_path that encodes straight to a numbered final
\* name.
temp_output_path_final(stem, index) ==
    with_file_name(stem, unwrap_or_default(file_name(stem)) \o "_"
                             \o ZeroPadded(index + 1, 3) \o ".gif")

\* lib.rs:57-64.
temp_output_path(stem, index) ==
    with_file_name(stem, unwrap_or_default(file_name(stem)) \o ".tmp_"
                             \o ZeroPadded(index, 6) \o ".gif")

(***************************************************************************)
(* The disk: the files the run has written, each with the range it         *)
(* renders.                                                                *)
(***************************************************************************)
WriteFile(disk, name, seg) ==
    {f \in disk : f.name # name} \cup {[name |-> name, seg |-> seg]}
\* A variant of RemoveFile that leaves the file where it is.
RemoveFileKept(disk, name) == disk

\* std::fs::remove_file.
RemoveFile(disk, name) == {f \in disk : f.name # name}
RenameFile(disk, from, to) ==
    {f \in disk : f.name # from /\ f.name # to}
        \cup {[name |-> to, seg |-> f.seg] : f \in {g \in disk : g.name = from}}

(***************************************************************************)
(* convert: validation, probe and initial decomposition                    *)
(* (clippr/src/lib.rs:70-116).                                             *)
(***************************************************************************)
CeilDiv(a, b) == (a + b - 1) \div b

\* (max_size_mb * 1024.0 * 1024.0) as u64: the cast truncates.
TargetBytes(max_size_half_bytes) == max_size_half_bytes \div 2

\* info.framerate.ceil() as u32.
FramerateCeil(framerate_milli) == CeilDiv(framerate_milli, 1000)

InitialParams(opts, probed) ==
    [width |-> Min(opts.width, probed.width),
     fps |-> Min(opts.fps, FramerateCeil(probed.framerate)),
     colors |-> opts.colors]

\* A variant of InitialQueue whose chunk count is truncated instead of
\* rounded up.
InitialQueueTruncated(duration, chunk_secs) ==
    [k \in 1..(duration \div chunk_secs) |->
        Segment((k - 1) * chunk_secs, chunk_secs)]

\* The loop of lib.rs:103-113: chunk k starts at k * chunk_secs and lasts
\* min(remaining, chunk_secs); it is queued only when that is positive.
InitialQueue(duration, chunk_secs) ==
    LET count == CeilDiv(duration, chunk_secs)
        seg(k) == Segment((k - 1) * chunk_secs,
                          Min(duration - (k - 1) * chunk_secs, chunk_secs))
    IN  SelectSeq([k \in 1..count |-> seg(k)], LAMBDA s : s.duration_secs > 0)

Fail(e) ==
    /\ pc' = "failed"
    /\ error' = e

StartFails(e) ==
    /\ Fail(e)
    /\ UNCHANGED <<guiVars, options, info, target_bytes, output_stem,
                   initial, queue, temp_paths,
                   temp_counter, segment, temp_path, params, size, outputs,
                   settings, attempt, ratio, reduced, files,
                   chunks, seg_encodes, fit_encodes, oversized_seen>>

\* A variant of ValidationError that does not check max_size_mb.
ValidationErrorSizeUnchecked(opts) ==
    IF ~opts.input_exists THEN Err("InputNotFound")
    ELSE IF opts.chunk_secs <= 0 THEN Err("InvalidInput")
    ELSE NoError

\* lib.rs:70-80: the checks made before the probe, in their order.
ValidationError(opts) ==
    IF ~opts.input_exists THEN Err("InputNotFound")
    ELSE IF opts.max_size <= 0 THEN Err("InvalidInput")
    ELSE IF opts.chunk_secs <= 0 THEN Err("InvalidInput")
    ELSE NoError

Start ==
    /\ pc = "start"
    /\ IF ValidationError(options) # NoError
       THEN StartFails(ValidationError(options))
       ELSE \/ StartFails(Err("ProbeFailed"))
            \/ \E w \in ProbedWidths, fr \in ProbedFramerates,
                  d \in 0..MaxHalfSecs :
                 LET probed == [width |-> w, framerate |-> fr,
                                duration_secs |-> d * TicksPerHalfSec]
                     stem == output_stem_from_args(options.input,
                                                   options.output)
                 IN  /\ info' = probed
                     /\ target_bytes' = TargetBytes(options.max_size)
                     /\ IF ~stem.ok
                        THEN /\ Fail(stem.error)
                             /\ UNCHANGED <<output_stem, initial, queue>>
                        ELSE IF CeilDiv(probed.duration_secs,
                                        options.chunk_secs) = 0
                        THEN /\ Fail(Err("InvalidInput"))
                             /\ output_stem' = stem.value
                             /\ UNCHANGED <<initial, queue>>
                        ELSE /\ output_stem' = stem.value
                             /\ initial' = InitialParams(options, probed)
                             /\ queue' = InitialQueue(probed.duration_secs,
                                                      options.chunk_secs)
                             /\ pc' = "loop"
                             /\ error' = error
                     /\ UNCHANGED <<guiVars, options, temp_paths,
                                    temp_counter, segment,
                                    temp_path, params, size, outputs, settings,
                                    attempt, ratio, reduced, files, chunks,
                                    seg_encodes, fit_encodes, oversized_seen>>

(***************************************************************************)
(* The Chunk Encoder (clippr/src/encode.rs:13-41): it writes output and    *)
(* returns the size of the file, or fails, possibly leaving a file behind. *)
(***************************************************************************)
\* A variant of Encode after whose failure the caller carries on.
EncodeContinuesOnFailure(output, seg, next_pc) ==
    \/ \E s \in EncoderSizes :
         /\ size' = s
         /\ files' = WriteFile(files, output, seg)
         /\ oversized_seen' = (oversized_seen \/ s > target_bytes)
         /\ pc' = next_pc
         /\ error' = error
    \/ /\ error' = Err("EncodeFailed")
       /\ pc' = next_pc
       /\ UNCHANGED <<size, files, oversized_seen>>

Encode(output, seg, next_pc) ==
    \/ \E s \in EncoderSizes :
         /\ size' = s
         /\ files' = WriteFile(files, output, seg)
         /\ oversized_seen' = (oversized_seen \/ s > target_bytes)
         /\ pc' = next_pc
         /\ error' = error
    \/ \E wrote \in BOOLEAN :
         /\ files' = IF wrote THEN WriteFile(files, output, seg) ELSE files
         /\ Fail(Err("EncodeFailed"))
         /\ UNCHANGED <<size, oversized_seen>>

(***************************************************************************)
(* convert: the scheduler loop (clippr/src/lib.rs:118-188).                *)
(***************************************************************************)
\* A variant of SchedulerParams that goes on with the settings the last
\* auto_encode call ended with.
SchedulerParamsCarried(init, seg) ==
    IF attempt > 0
    THEN EncodeParams(settings.width, settings.fps,
                      COLOR_STEPS[settings.color_index + 1], seg)
    ELSE EncodeParams(init.width, init.fps, init.colors, seg)

\* lib.rs:129-135: every scheduler encode uses the initial settings.
SchedulerParams(init, seg) ==
    EncodeParams(init.width, init.fps, init.colors, seg)

\* lib.rs:118-137: pop the front segment, take a fresh temp path, encode.
SchedEncode ==
    /\ pc = "loop"
    /\ queue # <<>>
    /\ segment' = Head(queue)
    /\ queue' = Tail(queue)
    /\ temp_path' = temp_output_path(output_stem, temp_counter)
    /\ temp_counter' = temp_counter + 1
    /\ params' = SchedulerParams(initial, Head(queue))
    /\ seg_encodes' = 1
    /\ Encode(temp_output_path(output_stem, temp_counter), Head(queue),
              "sched_check")
    /\ UNCHANGED <<guiVars, options, info, target_bytes, output_stem,
                   initial, temp_paths, outputs,
                   settings, attempt, ratio, reduced, chunks, fit_encodes>>

\* A variant of SchedFits that lets one byte too many through.
SchedFitsOneOver(s, target) == s <= target + 1

\* lib.rs:139.
SchedFits(s, target) == s <= target

\* lib.rs:139-144.
SchedAccept ==
    /\ pc = "sched_check"
    /\ SchedFits(size, target_bytes)
    /\ temp_paths' = Append(temp_paths, temp_path)
    /\ chunks' = Append(chunks, segment)
    /\ pc' = "loop"
    /\ UNCHANGED <<guiVars, options, info, target_bytes, output_stem,
                   initial, queue, temp_counter,
                   segment, temp_path, params, size, outputs, settings,
                   attempt, ratio, reduced, files, error, seg_encodes,
                   fit_encodes, oversized_seen>>

\* lib.rs:146: the oversized temp file is removed; the removal may fail.
SchedRemove ==
    /\ pc = "sched_check"
    /\ ~SchedFits(size, target_bytes)
    /\ \/ /\ files' = RemoveFile(files, temp_path)
          /\ pc' = "sched_split"
          /\ error' = error
       \/ /\ Fail(Err("Io"))
          /\ files' = files
    /\ UNCHANGED <<guiVars, options, info, target_bytes, output_stem,
                   initial, queue, temp_paths,
                   temp_counter, segment, temp_path, params, size, outputs,
                   settings, attempt, ratio, reduced, chunks, seg_encodes,
                   fit_encodes, oversized_seen>>

\* A variant of CanSplit that also splits a segment of exactly
\* MIN_SPLIT_DURATION.
CanSplitAtMinimum(seg) == seg.duration_secs >= MIN_SPLIT_DURATION

\* lib.rs:148.
CanSplit(seg) == seg.duration_secs > MIN_SPLIT_DURATION

\* A variant of Half that forgets the division.
HalfUndivided(seg) == seg.duration_secs

\* A variant of Half that cuts at a third.
HalfUneven(seg) == seg.duration_secs \div 3

\* lib.rs:149: half = duration / 2.0.
Half(seg) == seg.duration_secs \div 2

\* A variant of PushHalves that pushes the first half before the second, so
\* that the second half ends up at the front.
PushHalvesSwapped(q, seg) ==
    <<Segment(seg.start_secs + (seg.duration_secs \div 2),
              seg.duration_secs - (seg.duration_secs \div 2)),
      Segment(seg.start_secs, seg.duration_secs \div 2)>> \o q

\* A variant of PushHalves that pushes the halves to the back of the queue.
PushHalvesBack(q, seg) ==
    q \o <<Segment(seg.start_secs, seg.duration_secs \div 2),
           Segment(seg.start_secs + (seg.duration_secs \div 2),
                   seg.duration_secs - (seg.duration_secs \div 2))>>

\* lib.rs:156-163: the second half is pushed to the front, then the first.
PushHalves(q, seg) ==
    <<Segment(seg.start_secs, Half(seg)),
      Segment(seg.start_secs + Half(seg), seg.duration_secs - Half(seg))>> \o q

\* lib.rs:148-165.
Bisect ==
    /\ pc = "sched_split"
    /\ CanSplit(segment)
    /\ queue' = PushHalves(queue, segment)
    /\ pc' = "loop"
    /\ UNCHANGED <<guiVars, options, info, target_bytes, output_stem,
                   initial, temp_paths,
                   temp_counter, segment, temp_path, params, size, outputs,
                   settings, attempt, ratio, reduced, files, error, chunks,
                   seg_encodes, fit_encodes, oversized_seen>>

\* A variant of StartSettings that starts one palette step down.
StartSettingsStepped(init) ==
    EncodeSettings(init.width, init.fps,
                   Min(resolve_color_index(init.colors) + 1,
                       Len(COLOR_STEPS) - 1))

\* strategy.rs:69-73.
StartSettings(init) ==
    EncodeSettings(init.width, init.fps, resolve_color_index(init.colors))

\* lib.rs:167-183 and strategy.rs:69-73: a second temp path is taken and
\* auto_encode is entered.
Delegate ==
    /\ pc = "sched_split"
    /\ ~CanSplit(segment)
    /\ temp_path' = temp_output_path(output_stem, temp_counter)
    /\ temp_counter' = temp_counter + 1
    /\ settings' = StartSettings(initial)
    /\ attempt' = 0
    /\ fit_encodes' = 0
    /\ pc' = "fit_encode"
    /\ UNCHANGED <<guiVars, options, info, target_bytes, output_stem,
                   initial, queue, temp_paths,
                   segment, params, size, outputs, ratio, reduced, files,
                   error, chunks, seg_encodes, oversized_seen>>

(***************************************************************************)
(* auto_encode: the Adaptive Fitter (src/strategy.rs:61-107).              *)
(***************************************************************************)
\* strategy.rs:76-82.
FitterParams(s, seg) ==
    EncodeParams(s.width, s.fps, COLOR_STEPS[s.color_index + 1], seg)

\* strategy.rs:75-92: one attempt of the loop.
FitEncode ==
    /\ pc = "fit_encode"
    /\ attempt < MAX_ATTEMPTS
    /\ params' = FitterParams(settings, segment)
    /\ fit_encodes' = fit_encodes + 1
    /\ seg_encodes' = seg_encodes + 1
    /\ Encode(temp_path, segment, "fit_check")
    /\ UNCHANGED <<guiVars, options, info, target_bytes, output_stem,
                   initial, queue, temp_paths,
                   temp_counter, segment, temp_path, outputs, settings,
                   attempt, ratio, reduced, chunks>>

\* A variant of FitterFits that lets one byte too many through.
FitterFitsOneOver(s, target) == s <= target + 1

\* strategy.rs:94.
FitterFits(s, target) == s <= target

\* strategy.rs:94-96 and lib.rs:185-187: auto_encode returns the size and the
\* scheduler accepts its temp path.
FitAccept ==
    /\ pc = "fit_check"
    /\ FitterFits(size, target_bytes)
    /\ temp_paths' = Append(temp_paths, temp_path)
    /\ chunks' = Append(chunks, segment)
    /\ pc' = "loop"
    /\ UNCHANGED <<guiVars, options, info, target_bytes, output_stem,
                   initial, queue, temp_counter,
                   segment, temp_path, params, size, outputs, settings,
                   attempt, ratio, reduced, files, error, seg_encodes,
                   fit_encodes, oversized_seen>>

\* strategy.rs:98: (target_bytes / size) * SAFETY_MARGIN.
Ratio(target, s) ==
    [num |-> target * SAFETY_MARGIN.num, den |-> s * SAFETY_MARGIN.den]

\* A variant of ExhaustedAttempts that names the 0-based attempt.
ExhaustedAttemptsZeroBased(att) == att

\* strategy.rs:102: the attempts named when the ladder is exhausted.
ExhaustedAttempts(att) == att + 1

\* strategy.rs:106: the attempts named when the loop runs out.
CeilingAttempts == MAX_ATTEMPTS

\* strategy.rs:98-106: step down the ladder, or fail.
FitReduce ==
    /\ pc = "fit_check"
    /\ ~FitterFits(size, target_bytes)
    /\ ratio' = Ratio(target_bytes, size)
    /\ reduced' = reduce_params(settings, Ratio(target_bytes, size))
    /\ IF reduce_params(settings, Ratio(target_bytes, size)).none
       THEN /\ Fail(TargetUnreachable(ExhaustedAttempts(attempt)))
            /\ UNCHANGED <<settings, attempt>>
       ELSE /\ settings' = reduce_params(settings, Ratio(target_bytes, size)).value
            /\ attempt' = attempt + 1
            /\ IF attempt + 1 < MAX_ATTEMPTS
               THEN /\ pc' = "fit_encode"
                    /\ error' = error
               ELSE Fail(TargetUnreachable(CeilingAttempts))
    /\ UNCHANGED <<guiVars, options, info, target_bytes, output_stem,
                   initial, queue, temp_paths,
                   temp_counter, segment, temp_path, params, size, outputs,
                   files, chunks, seg_encodes, fit_encodes, oversized_seen>>

(***************************************************************************)
(* convert: the final renames (clippr/src/lib.rs:190-205).                 *)
(***************************************************************************)
\* The while loop ends when the queue is empty (lib.rs:118, 190).
ExitLoop ==
    /\ pc = "loop"
    /\ queue = <<>>
    /\ pc' = "rename"
    /\ UNCHANGED <<guiVars, options, info, target_bytes, output_stem,
                   initial, queue, temp_paths,
                   temp_counter, segment, temp_path, params, size, outputs,
                   settings, attempt, ratio, reduced, files, error, chunks,
                   seg_encodes, fit_encodes, oversized_seen>>

\* lib.rs:193-197: rename the next temp path; the rename may fail.
RenameNext ==
    /\ pc = "rename"
    /\ Len(outputs) < Len(temp_paths)
    /\ LET final_path == chunk_output_path(output_stem, Len(outputs),
                                             Len(temp_paths))
       IN  \/ /\ files' = RenameFile(files, temp_paths[Len(outputs) + 1],
                                     final_path)
              /\ outputs' = Append(outputs, final_path)
              /\ UNCHANGED <<pc, error>>
           \/ /\ Fail(Err("Io"))
              /\ UNCHANGED <<files, outputs>>
    /\ UNCHANGED <<guiVars, options, info, target_bytes, output_stem,
                   initial, queue, temp_paths,
                   temp_counter, segment, temp_path, params, size, settings,
                   attempt, ratio, reduced, chunks, seg_encodes, fit_encodes,
                   oversized_seen>>

\* lib.rs:199-204: Ok(outputs).
Finish ==
    /\ pc = "rename"
    /\ Len(outputs) = Len(temp_paths)
    /\ pc' = "done"
    /\ UNCHANGED <<guiVars, options, info, target_bytes, output_stem,
                   initial, queue, temp_paths,
                   temp_counter, segment, temp_path, params, size, outputs,
                   settings, attempt, ratio, reduced, files, error, chunks,
                   seg_encodes, fit_encodes, oversized_seen>>

(***************************************************************************)
(* The conversion.                                                         *)
(***************************************************************************)
Options ==
    [input : InputPaths,
     output : {None},
     input_exists : BOOLEAN,
     max_size : MaxSizeHalfBytes,
     width : OptionWidths,
     fps : OptionFps,
     colors : OptionColors,
     chunk_secs : {c * TicksPerHalfSec : c \in 0..MaxHalfSecs}]

Init ==
    /\ options \in Options
    /\ info = [width |-> 0, framerate |-> 0, duration_secs |-> 0]
    /\ target_bytes = 0
    /\ output_stem = ""
    /\ initial = [width |-> 0, fps |-> 0, colors |-> 0]
    /\ queue = <<>>
    /\ temp_paths = <<>>
    /\ temp_counter = 0
    /\ segment = NoSegment
    /\ temp_path = ""
    /\ params = NoParams
    /\ size = 0
    /\ outputs = <<>>
    /\ settings = EncodeSettings(0, 0, 0)
    /\ attempt = 0
    /\ ratio = NoRatio
    /\ reduced = None
    /\ files = {}
    /\ pc = "start"
    /\ error = NoError
    /\ chunks = <<>>
    /\ seg_encodes = 0
    /\ fit_encodes = 0
    /\ oversized_seen = FALSE
    /\ GuiDefault

Next ==
    \/ Start
    \/ SchedEncode
    \/ SchedAccept
    \/ SchedRemove
    \/ Bisect
    \/ Delegate
    \/ FitEncode
    \/ FitAccept
    \/ FitReduce
    \/ ExitLoop
    \/ RenameNext
    \/ Finish

Spec == Init /\ [][Next]_vars

(***************************************************************************)
(* Properties of the conversion.                                           *)
(***************************************************************************)
End(seg) == seg.start_secs + seg.duration_secs

\* segs are non-empty ranges, each starting where the one before it ends,
\* the first at from and the last ending at to.
Tiles(segs, from, to) ==
    /\ \A i \in 1..Len(segs) : segs[i].duration_secs > 0
    /\ \A i \in 1..(Len(segs) - 1) : End(segs[i]) = segs[i + 1].start_secs
    /\ IF segs = <<>> THEN from = to
       ELSE segs[1].start_secs = from /\ End(segs[Len(segs)]) = to

\* s occurs in t.
Contains(t, s) ==
    \E i \in 1..(Len(t) - Len(s) + 1) : SubSeq(t, i, i + Len(s) - 1) = s

\* A temp-named file has ".tmp_" in its name; every other file the run has
\* written has a final name.
IsTempName(name) == Contains(name, ".tmp_")
TempFiles == {f \in files : IsTempName(f.name)}
FinalFiles == files \ TempFiles

\* C1: whenever a chunk is accepted (its temp path is pushed to temp_paths,
\* by the scheduler at full quality or on the return of auto_encode), the
\* size the encoder last reported, which is the size of the file at that
\* temp path, is <= target_bytes.
C1_AcceptedFitsBudget ==
    [][temp_paths' # temp_paths =>
          /\ temp_paths' = Append(temp_paths, temp_path)
          /\ [name |-> temp_path, seg |-> segment] \in files
          /\ size <= target_bytes
          /\ size' = size]_vars

\* A successful run that accepted a chunk at full quality (one longer than
\* MIN_SPLIT_DURATION) and a chunk from a second or later fitter attempt.
C1_Witness ==
    /\ pc = "done"
    /\ fit_encodes >= 2
    /\ \E i \in 1..Len(chunks) : chunks[i].duration_secs > MIN_SPLIT_DURATION

\* C2: at the start of every iteration of the scheduler loop the accepted
\* chunks followed by the queued segments tile [0, total duration); a
\* bisection puts two equal adjacent halves of the bisected segment in its
\* place; on success the outputs hold the chunks, which tile the video.
C2_LoopTiling ==
    /\ pc = "loop" => Tiles(chunks \o queue, 0, info.duration_secs)
    /\ (pc = "loop" /\ size > target_bytes) =>
          /\ Len(queue) >= 2
          /\ queue[1].start_secs = segment.start_secs
          /\ queue[1].duration_secs = queue[2].duration_secs
          /\ End(queue[1]) = queue[2].start_secs
          /\ End(queue[2]) = End(segment)
    /\ pc = "done" =>
          /\ Tiles(chunks, 0, info.duration_secs)
          /\ Len(outputs) = Len(chunks)
          /\ \A i \in 1..Len(chunks) :
                [name |-> outputs[i], seg |-> chunks[i]] \in files

\* The loop stands between two accepted chunks and the two quarters of a
\* segment that was bisected twice.
C2_Witness ==
    /\ pc = "loop"
    /\ size > target_bytes
    /\ chunks # <<>>
    /\ Len(queue) >= 2
    /\ queue[1].duration_secs * 4 = options.chunk_secs

\* Chunk starts increase with the index.
InTemporalOrder(segs) ==
    \A i, j \in 1..Len(segs) : i < j => segs[i].start_secs < segs[j].start_secs

\* C3: a final-named file exists only once the queue is empty and the
\* accepted chunks cover the whole video, so a run that fails while
\* scheduling or fitting has produced none; the final files are at every
\* moment those of the first Len(outputs) chunks, renamed in temporal order;
\* success is returned only with every chunk renamed.
C3_RenameAfterAllFitted ==
    /\ FinalFiles # {} =>
          /\ queue = <<>>
          /\ pc \in {"rename", "done", "failed"}
          /\ error.kind \in {"none", "Io"}
          /\ Len(temp_paths) = Len(chunks)
          /\ Tiles(chunks, 0, info.duration_secs)
    /\ FinalFiles =
          {[name |-> chunk_output_path(output_stem, i - 1, Len(temp_paths)),
            seg |-> chunks[i]] : i \in 1..Len(outputs)}
    /\ InTemporalOrder(chunks)
    /\ pc = "done" =>
          /\ error = NoError
          /\ queue = <<>>
          /\ Tiles(chunks, 0, info.duration_secs)
          /\ Len(outputs) = Len(temp_paths)
          /\ Len(temp_paths) = Len(chunks)

\* A successful run that renamed at least three chunks after a bisection.
C3_Witness ==
    /\ pc = "done"
    /\ oversized_seen
    /\ Cardinality(FinalFiles) >= 3

\* The three outcomes of one scheduler iteration, as steps.
StepAccepts ==
    /\ temp_paths' = Append(temp_paths, temp_path)
    /\ queue' = queue
    /\ pc' = "loop"
StepBisects ==
    /\ Len(queue') = Len(queue) + 2
    /\ temp_paths' = temp_paths
    /\ pc' = "loop"
StepDelegates ==
    /\ pc' = "fit_encode"
    /\ attempt' = 0
    /\ queue' = queue
    /\ temp_paths' = temp_paths

\* C4: a dequeued segment is encoded once by the scheduler; then, unless an
\* I/O error ends the run, it is accepted when size <= target_bytes,
\* bisected when size > target_bytes and its duration exceeds
\* MIN_SPLIT_DURATION, and handed to the fitter when size > target_bytes and
\* its duration is at most MIN_SPLIT_DURATION.  The fitter never works on a
\* segment longer than MIN_SPLIT_DURATION, and a chunk longer than that is
\* accepted from an encode at the initial settings.
C4_ThreeWayDecision ==
    [][/\ pc \in {"sched_check", "sched_split"} => seg_encodes = 1
       /\ pc = "sched_split" => size > target_bytes
       /\ pc \in {"fit_encode", "fit_check"} =>
             segment.duration_secs <= MIN_SPLIT_DURATION
       /\ (pc = "sched_check" /\ size <= target_bytes) => StepAccepts
       /\ (pc = "sched_check" /\ size > target_bytes) =>
             /\ pc' \in {"sched_split", "failed"}
             /\ queue' = queue
             /\ temp_paths' = temp_paths
       /\ (pc = "sched_split"
              /\ segment.duration_secs > MIN_SPLIT_DURATION) => StepBisects
       /\ (pc = "sched_split"
              /\ segment.duration_secs <= MIN_SPLIT_DURATION) => StepDelegates
       /\ (temp_paths' # temp_paths
              /\ segment.duration_secs > MIN_SPLIT_DURATION) =>
             /\ pc = "sched_check"
             /\ params = [width |-> initial.width, fps |-> initial.fps,
                          colors |-> initial.colors,
                          start_secs |-> segment.start_secs,
                          duration_secs |-> segment.duration_secs]]_vars

\* The fitter is entered for a quarter of a bisected segment, with a chunk
\* already accepted and a segment still queued.
C4_Witness ==
    /\ pc = "fit_encode"
    /\ attempt = 0
    /\ chunks # <<>>
    /\ queue # <<>>
    /\ segment.duration_secs < MIN_SPLIT_DURATION

\* C5: the halves of a bisected segment go to the front of the queue, first
\* half first, ahead of everything queued before; hence every dequeued
\* segment lies after all accepted chunks and before all queued segments,
\* and on success output index i holds the chunk with the i-th smallest
\* start.
C5_DepthFirstOrder ==
    [][/\ (pc = "sched_split" /\ pc' = "loop") =>
             /\ Len(queue') = Len(queue) + 2
             /\ SubSeq(queue', 3, Len(queue')) = queue
             /\ queue'[1].start_secs = segment.start_secs
             /\ queue'[1].start_secs < queue'[2].start_secs
             /\ End(queue'[2]) = End(segment)
       /\ (pc = "loop" /\ queue # <<>>) =>
             /\ segment' = Head(queue)
             /\ \A i \in 1..Len(queue') :
                   End(segment') <= queue'[i].start_secs
             /\ \A i \in 1..Len(chunks) :
                   End(chunks[i]) <= segment'.start_secs
       /\ temp_paths' # temp_paths => chunks' = Append(chunks, segment)
       /\ pc' = "done" =>
             /\ InTemporalOrder(chunks')
             /\ \A i \in 1..Len(chunks') :
                   [name |-> chunk_output_path(output_stem, i - 1,
                                               Len(chunks')),
                    seg |-> chunks'[i]] \in files']_vars

\* The first half of a bisected first segment has been accepted, its second
\* half is at the front, and the second initial segment waits behind it.
C5_Witness ==
    /\ pc = "loop"
    /\ Len(chunks) = 1
    /\ Len(queue) = 2
    /\ queue[1].start_secs = End(chunks[1])
    /\ End(queue[1]) = options.chunk_secs
    /\ queue[2].start_secs = options.chunk_secs

\* ceil(d / c) for d >= 0 and c > 0, from its definition.
CeilOf(d, c) == CHOOSE n \in 0..d : (n - 1) * c < d /\ d <= n * c

\* C6: before the first iteration the queue holds ceil(D/c) consecutive
\* segments [k*c, min((k+1)*c, D)) in temporal order; while no encode has
\* come back oversized every temp path taken is one scheduler encode of one
\* segment and the fitter has not run; and a run that ends so has ceil(D/c)
\* outputs, the initial segments, named <stem>.gif when there is one and
\* _001, _002, ... otherwise.
C6_InitialDecomposition ==
    LET D == info.duration_secs
        c == options.chunk_secs
        n == CeilOf(D, c)
    IN  /\ (pc = "loop" /\ temp_counter = 0) =>
              /\ Len(queue) = n
              /\ \A k \in 1..n :
                    /\ queue[k].start_secs = (k - 1) * c
                    /\ End(queue[k]) = IF k < n THEN k * c ELSE D
                    /\ queue[k].duration_secs > 0
        /\ (~oversized_seen /\ pc \in {"loop", "sched_check", "rename", "done"}) =>
              /\ fit_encodes = 0
              /\ seg_encodes <= 1
              /\ temp_counter = Len(chunks) + (IF pc = "sched_check" THEN 1 ELSE 0)
              /\ temp_counter + Len(queue) = n
        /\ (~oversized_seen /\ pc = "done") =>
              /\ temp_counter = n
              /\ Len(outputs) = n
              /\ \A k \in 1..n :
                    /\ chunks[k] = Segment((k - 1) * c,
                                           IF k < n THEN c ELSE D - (n - 1) * c)
                    /\ outputs[k] =
                          IF n = 1 THEN output_stem \o ".gif"
                          ELSE output_stem \o "_" \o ZeroPadded(k, 3)
                                   \o ".gif"

\* Every encode fitted on its first try and the second, last chunk is the
\* shorter one.
C6_Witness ==
    /\ pc = "done"
    /\ ~oversized_seen
    /\ Len(outputs) = 2
    /\ chunks[2].duration_secs < chunks[1].duration_secs

\* C7: one call of auto_encode invokes the encoder at most MAX_ATTEMPTS
\* times, and TargetUnreachable(n) names the number n of invocations the
\* call made, 1 <= n <= MAX_ATTEMPTS.
C7_AttemptCeiling ==
    /\ fit_encodes <= MAX_ATTEMPTS
    /\ error.kind = "TargetUnreachable" =>
          /\ error.attempts = fit_encodes
          /\ 1 <= error.attempts
          /\ error.attempts <= MAX_ATTEMPTS

\* The ladder ran out after two to four attempts.
C7_Witness ==
    /\ pc = "failed"
    /\ error.kind = "TargetUnreachable"
    /\ reduced = None
    /\ error.attempts \in 2..(MAX_ATTEMPTS - 1)

LadderExhaustedAt(s) ==
    /\ s.width <= MIN_WIDTH
    /\ s.fps <= MIN_FPS
    /\ s.color_index = Len(COLOR_STEPS) - 1

\* What C8 says of the fitter's steps, with the attempts a failure reports
\* left open.
C8Steps(reported) ==
    /\ (pc = "sched_split" /\ segment.duration_secs <= MIN_SPLIT_DURATION) =>
          /\ StepDelegates
          /\ segment' = segment
    /\ (pc = "fit_check" /\ size <= target_bytes) =>
          /\ temp_paths' = Append(temp_paths, temp_path)
          /\ chunks' = Append(chunks, segment)
          /\ pc' = "loop"
    /\ (pc = "fit_check" /\ size > target_bytes) =>
          /\ temp_paths' = temp_paths
          /\ \/ pc' = "fit_encode"
             \/ pc' = "failed" /\ error'.kind = "TargetUnreachable"
    /\ (pc = "fit_check" /\ pc' = "failed") => error'.attempts \in reported

\* C8 as claimed: a segment of at most MIN_SPLIT_DURATION whose full-quality
\* encode is oversized goes to the fitter without bisection, the first
\* fitter attempt that fits is accepted, and when none fits the conversion
\* fails reporting 5 attempts, whatever the starting settings.
C8_Original == [][C8Steps({MAX_ATTEMPTS})]_vars

\* C8 amended: ... and when none fits the conversion fails reporting the
\* attempts made: MAX_ATTEMPTS, or fewer when the ladder is exhausted first
\* (width <= MIN_WIDTH, fps <= MIN_FPS, last palette step).
C8_FitterOutcome ==
    [][/\ C8Steps(1..MAX_ATTEMPTS)
       /\ (pc = "fit_check" /\ pc' = "failed") =>
             /\ error'.attempts = fit_encodes
             /\ \/ error'.attempts = MAX_ATTEMPTS
                \/ LadderExhaustedAt(settings)]_vars

\* Five attempts were made for a delegated segment, none fitted, and the
\* ladder still had a step left.
C8_Witness ==
    /\ pc = "failed"
    /\ error = TargetUnreachable(MAX_ATTEMPTS)
    /\ segment.duration_secs <= MIN_SPLIT_DURATION
    /\ reduced # None
    /\ size > target_bytes

(***************************************************************************)
(* The Quality Ladder on its own: reduce_params applied to settings and    *)
(* ratios drawn from bounded sets, and again to each result, as the loop   *)
(* of auto_encode does (src/strategy.rs:98-103).                           *)
(***************************************************************************)
LadderWidths == {100, 240, 241, 260, 480, 1000}
LadderFps == {5, 8, 9, 15, 30}
\* Ratios: hundredths from 0 to above 1, and two ratios auto_encode computes.
LadderRatios ==
    {[num |-> n, den |-> 100] : n \in {0, 1, 30, 50, 70, 89, 100, 120}}
        \cup {Ratio(100, 101), Ratio(100, 250)}

LadderInit ==
    /\ pc = "ladder_call"
    /\ settings \in {EncodeSettings(w, f, ci) :
                        w \in LadderWidths, f \in LadderFps,
                        ci \in 0..(Len(COLOR_STEPS) - 1)}
    /\ ratio \in LadderRatios
    /\ reduced = None
    /\ options = [input |-> "", output |-> None, input_exists |-> TRUE,
                  max_size |-> 0, width |-> 0, fps |-> 0, colors |-> 0,
                  chunk_secs |-> 0]
    /\ info = [width |-> 0, framerate |-> 0, duration_secs |-> 0]
    /\ target_bytes = 0
    /\ output_stem = ""
    /\ initial = [width |-> 0, fps |-> 0, colors |-> 0]
    /\ queue = <<>>
    /\ temp_paths = <<>>
    /\ temp_counter = 0
    /\ segment = NoSegment
    /\ temp_path = ""
    /\ params = NoParams
    /\ size = 0
    /\ outputs = <<>>
    /\ attempt = 0
    /\ files = {}
    /\ error = NoError
    /\ chunks = <<>>
    /\ seg_encodes = 0
    /\ fit_encodes = 0
    /\ oversized_seen = FALSE
    /\ GuiDefault

ladderFrame == <<guiVars, options, info, target_bytes, output_stem,
                 initial, queue, temp_paths,
                 temp_counter, segment, temp_path, params, size, outputs,
                 attempt, files, error, chunks, seg_encodes, fit_encodes,
                 oversized_seen>>

\* reduce_params(&settings, ratio) is called.
LadderStep ==
    /\ pc = "ladder_call"
    /\ reduced' = reduce_params(settings, ratio)
    /\ pc' = "ladder_return"
    /\ UNCHANGED <<settings, ratio, ladderFrame>>

\* settings = reduced, and the next call is made with some ratio.
LadderContinue ==
    /\ pc = "ladder_return"
    /\ ~reduced.none
    /\ settings' = reduced.value
    /\ ratio' \in LadderRatios
    /\ pc' = "ladder_call"
    /\ UNCHANGED <<reduced, ladderFrame>>

LadderNext == LadderStep \/ LadderContinue

SpecLadder == LadderInit /\ [][LadderNext]_vars

\* floor(x * sqrt(ratio)) and floor(x * ratio) from their definitions.
RefFloorMulSqrt(x, r) ==
    CHOOSE k \in 0..(2 * x) :
        /\ k * k * r.den <= x * x * r.num
        /\ x * x * r.num < (k + 1) * (k + 1) * r.den
RefFloorMul(x, r) ==
    CHOOSE k \in 0..(2 * x) :
        /\ k * r.den <= x * r.num
        /\ x * r.num < (k + 1) * r.den

\* C9: reduce_params returns what the reference ladder gives: the width
\* max(MIN_WIDTH, floor(width * sqrt(ratio))) when that is below width, with
\* fps and color index unchanged; else the fps max(MIN_FPS, floor(fps *
\* ratio)) when that is below fps, with width and color index unchanged;
\* else color_index + 1 when the index is not the last; else None.  A
\* changed width is >= MIN_WIDTH and a changed fps is >= MIN_FPS.
C9_ReferenceLadder ==
    pc = "ladder_return" =>
        LET w == settings.width
            f == settings.fps
            ci == settings.color_index
            rw == Max(MIN_WIDTH, RefFloorMulSqrt(w, ratio))
            rf == Max(MIN_FPS, RefFloorMul(f, ratio))
        IN  /\ IF rw < w
               THEN reduced = Some([width |-> rw, fps |-> f, color_index |-> ci])
               ELSE IF rf < f
               THEN reduced = Some([width |-> w, fps |-> rf, color_index |-> ci])
               ELSE IF ci # Len(COLOR_STEPS) - 1
               THEN reduced = Some([width |-> w, fps |-> f, color_index |-> ci + 1])
               ELSE reduced = None
            /\ ~reduced.none =>
                  /\ reduced.value.width # w => reduced.value.width >= MIN_WIDTH
                  /\ reduced.value.fps # f => reduced.value.fps >= MIN_FPS

\* The case of the test reduce_clamps_width_to_minimum: 260 px at ratio 0.01
\* is clamped to MIN_WIDTH.
C9_Witness ==
    /\ pc = "ladder_return"
    /\ settings.width = 260
    /\ ratio = [num |-> 1, den |-> 100]
    /\ reduced = Some(EncodeSettings(MIN_WIDTH, settings.fps,
                                     settings.color_index))

\* C10: a result of reduce_params differs from its input in exactly one of
\* width, fps and color_index, and there it is of lower quality: a smaller
\* width, a smaller fps, or the color index plus one.
C10_SingleAxisStep ==
    (pc = "ladder_return" /\ ~reduced.none) =>
        LET r == reduced.value
        IN  \/ /\ r.width < settings.width
               /\ r.fps = settings.fps
               /\ r.color_index = settings.color_index
            \/ /\ r.width = settings.width
               /\ r.fps < settings.fps
               /\ r.color_index = settings.color_index
            \/ /\ r.width = settings.width
               /\ r.fps = settings.fps
               /\ r.color_index = settings.color_index + 1

\* The case of the test reduce_only_changes_one_param_per_call: 480 px,
\* 15 fps, 256 colors at ratio 0.3 gives a narrower width.
C10_Witness ==
    /\ pc = "ladder_return"
    /\ settings = EncodeSettings(480, 15, 0)
    /\ ratio = [num |-> 30, den |-> 100]
    /\ ~reduced.none
    /\ reduced.value.width < 480

\* C11: at (MIN_WIDTH, MIN_FPS, last color index) reduce_params returns None
\* whatever the ratio; and it returns None only when no axis can move: the
\* scaled width max(MIN_WIDTH, floor(width * sqrt(ratio))) is not below
\* width, the scaled fps max(MIN_FPS, floor(fps * ratio)) is not below fps,
\* and the color index is the last.
C11_Exhaustion ==
    pc = "ladder_return" =>
        /\ settings = EncodeSettings(MIN_WIDTH, MIN_FPS, Len(COLOR_STEPS) - 1)
              => reduced = None
        /\ reduced = None =>
              /\ Max(MIN_WIDTH, RefFloorMulSqrt(settings.width, ratio))
                    >= settings.width
              /\ Max(MIN_FPS, RefFloorMul(settings.fps, ratio)) >= settings.fps
              /\ settings.color_index = Len(COLOR_STEPS) - 1

\* The case of the test reduce_returns_none_when_all_floored, called with a
\* ratio that would shrink anything above the floors.
C11_Witness ==
    /\ pc = "ladder_return"
    /\ settings = EncodeSettings(MIN_WIDTH, MIN_FPS, Len(COLOR_STEPS) - 1)
    /\ ratio = [num |-> 50, den |-> 100]
    /\ reduced = None

\* C12: every encoder invocation of a conversion, and hence every accepted
\* chunk, is made with width >= MIN_WIDTH and fps >= MIN_FPS, whatever the
\* starting width and fps of the options and the probed width and frame
\* rate.
C12_FloorsHold ==
    pc \in {"sched_check", "fit_check"} =>
        /\ params.width >= MIN_WIDTH
        /\ params.fps >= MIN_FPS

\* C13: when an encoder invocation fails, in the scheduler or in the fitter,
\* convert returns that error at once: the failing step is the invocation
\* itself, it ends the run, no step follows it (no further invocation for
\* this or another segment, no downgrade, no rename) and no file has a final
\* name.  The fitter downgrades its settings, and tries again, only after an
\* encode that succeeded and was oversized.
C13_EncodeFailureIsFatal ==
    [][/\ error.kind # "EncodeFailed"
       /\ error'.kind = "EncodeFailed" =>
             /\ \/ pc = "loop" /\ queue # <<>>
                \/ pc = "fit_encode"
             /\ pc' = "failed"
             /\ settings' = settings
             /\ attempt' = attempt
             /\ temp_paths' = temp_paths
             /\ outputs' = <<>>
             /\ {f \in files' : ~IsTempName(f.name)} = {}
       /\ (settings' # settings /\ pc # "sched_split") =>
             /\ pc = "fit_check"
             /\ error = NoError
             /\ size > target_bytes
             /\ [name |-> temp_path, seg |-> segment] \in files
       /\ (pc = "fit_encode" /\ attempt > 0) =>
             /\ error = NoError
             /\ size > target_bytes]_vars

\* The encoder failed on the second attempt of the fitter, after a chunk had
\* been accepted and with a segment still queued.
C13_Witness ==
    /\ pc = "failed"
    /\ error.kind = "EncodeFailed"
    /\ fit_encodes = 2
    /\ temp_paths # <<>>
    /\ queue # <<>>

\* The prober has been called: it failed, or info holds what it returned.
ProberInvoked ==
    \/ error.kind = "ProbeFailed"
    \/ info # [width |-> 0, framerate |-> 0, duration_secs |-> 0]

\* The encoder has been called or a file written.
EncoderInvoked ==
    \/ temp_counter > 0
    \/ seg_encodes > 0
    \/ files # {}

\* What C14 says, with the error returned for invalid options left open.
C14FailsFast(kind_for_options) ==
    /\ (options.max_size <= 0 \/ options.chunk_secs <= 0) =>
          /\ pc \in {"start", "failed"}
          /\ pc = "failed" => error.kind = kind_for_options
          /\ ~ProberInvoked
          /\ ~EncoderInvoked
    /\ (ProberInvoked /\ error.kind # "ProbeFailed"
            /\ info.duration_secs = 0) =>
          /\ pc = "failed"
          /\ error.kind = "InvalidInput"
          /\ ~EncoderInvoked
          /\ queue = <<>>

\* C14 as claimed: with max_size_mb <= 0 or chunk_secs <= 0 convert returns
\* InvalidInput without calling the prober or the encoder, and with a probed
\* duration that gives zero initial chunks it returns InvalidInput without
\* calling the encoder or creating a file.
C14_Original == C14FailsFast("InvalidInput")

\* C14 amended: ... with max_size_mb <= 0 or chunk_secs <= 0 convert returns
\* InvalidInput when the input path exists and InputNotFound when it does
\* not, in both cases without calling the prober or the encoder; ...
C14_FailFast ==
    C14FailsFast(IF options.input_exists THEN "InvalidInput"
                                         ELSE "InputNotFound")

\* An existing input with max_size_mb = 0 and a positive chunk_secs was
\* rejected.
C14_Witness ==
    /\ pc = "failed"
    /\ error.kind = "InvalidInput"
    /\ options.input_exists
    /\ options.max_size <= 0
    /\ options.chunk_secs > 0

\* The temp paths earlier encoder invocations of this conversion wrote to:
\* every path taken from the counter so far, but for the one the scheduler
\* has just taken for a fitter that has not encoded yet.
PathsEncodedTo ==
    {temp_output_path(output_stem, i) : i \in 0..(temp_counter - 1)}
        \ (IF pc = "fit_encode" /\ fit_encodes = 0 THEN {temp_path} ELSE {})

\* The final names the conversion may give its chunks.
FinalNames ==
    {chunk_output_path(output_stem, i, n) :
        i \in 0..(2 * MaxHalfSecs), n \in 1..(2 * MaxHalfSecs + 1)}

\* C15: the temp path an encoder invocation writes to (by the scheduler for
\* a dequeued segment, or by the fitter on each of its attempts) is no final
\* name, is the temp path of no earlier encoder invocation of the
\* conversion, and is the temp path of no accepted chunk.
C15_FreshTempPaths ==
    [][((pc = "loop" /\ queue # <<>>) \/ pc = "fit_encode") =>
          /\ temp_path' \notin FinalNames
          /\ temp_path' \notin PathsEncodedTo
          /\ \A i \in 1..Len(temp_paths) : temp_paths[i] # temp_path']_vars

\* Steps the scheduler can spend on a segment of duration d and on its
\* halves: encode, remove and bisect above MIN_SPLIT_DURATION; encode,
\* remove, delegate, MAX_ATTEMPTS attempts of two steps and one rename at
\* or below it.
RECURSIVE SegmentSteps(_)
SegmentSteps(d) ==
    IF d > MIN_SPLIT_DURATION
    THEN 3 + SegmentSteps(d \div 2) + SegmentSteps(d - (d \div 2))
    ELSE 3 + 2 * MAX_ATTEMPTS + 1

RECURSIVE QueueSteps(_)
QueueSteps(q) ==
    IF q = <<>> THEN 0
    ELSE SegmentSteps(Head(q).duration_secs) + QueueSteps(Tail(q))

\* A bound on the steps convert has left: 0 exactly when it has returned.
StepsLeft ==
    LET renames == Len(temp_paths) - Len(outputs)
        rest == renames + 2 + QueueSteps(queue)
        here == SegmentSteps(segment.duration_secs)
    IN  CASE pc = "start" -> 3 + 17 * MaxHalfSecs * TicksPerHalfSec
          [] pc = "loop" -> rest
          [] pc = "sched_check" -> rest + here - 1
          [] pc = "sched_split" -> rest + here - 2
          [] pc = "fit_encode" -> rest + 2 * (MAX_ATTEMPTS - attempt) + 1
          [] pc = "fit_check" -> rest + 2 * (MAX_ATTEMPTS - attempt)
          [] pc = "rename" -> renames + 1
          [] OTHER -> 0

\* C16: convert terminates whatever sizes the encoder reports: every step
\* strictly lowers a natural-number bound on the steps left, which is 0
\* exactly when convert has returned (success with an empty queue, or an
\* error); a bisection is made only of a segment longer than
\* MIN_SPLIT_DURATION and the fitter encodes only while attempt is below
\* MAX_ATTEMPTS.
C16_Terminates ==
    [][/\ StepsLeft' < StepsLeft
       /\ StepsLeft' >= 0
       /\ StepsLeft' = 0 <=> pc' \in {"done", "failed"}
       /\ (pc' = "done") => queue' = <<>>
       /\ (pc' = "failed") => error' # NoError
       /\ (pc # "start" /\ Len(queue') > Len(queue)) =>
             segment.duration_secs > MIN_SPLIT_DURATION
       /\ (pc = "fit_encode") => attempt < MAX_ATTEMPTS]_vars

\* Every encode was oversized: the first chunk was bisected down to a
\* segment shorter than MIN_SPLIT_DURATION, the fitter used its
\* MAX_ATTEMPTS attempts on it and the conversion failed.
C16_Witness ==
    /\ pc = "failed"
    /\ error = TargetUnreachable(MAX_ATTEMPTS)
    /\ temp_paths = <<>>
    /\ segment.start_secs = 0
    /\ segment.duration_secs < MIN_SPLIT_DURATION
    /\ options.chunk_secs > MIN_SPLIT_DURATION

(***************************************************************************)
(* The naming functions on their own: output_stem_from_args applied to     *)
(* input and output paths drawn from bounded sets, then the renaming loop  *)
(* of convert (lib.rs:190-197) run for some number of accepted chunks.     *)
(***************************************************************************)
PathInputs ==
    {"video.mp4", "video", "video.v2.mp4", "/tmp/output/demo.mov", ".hidden",
     "..", "/"}
PathOutputs == {"out.gif", "myoutput", "/tmp/output/demo", "my.clip.gif"}
\* Numbers of chunks accepted by the scheduler loop.
ChunkCounts == {1, 2, 4, 12}

PathsInit ==
    /\ pc = "stem_call"
    /\ options \in [input : PathInputs,
                     output : {None} \cup {Some(o) : o \in PathOutputs},
                     input_exists : {TRUE}, max_size : {200}, width : {480},
                     fps : {15}, colors : {256},
                     chunk_secs : {TicksPerHalfSec}]
    /\ info = [width |-> 0, framerate |-> 0, duration_secs |-> 0]
    /\ target_bytes = 0
    /\ output_stem = ""
    /\ initial = [width |-> 0, fps |-> 0, colors |-> 0]
    /\ queue = <<>>
    /\ temp_paths = <<>>
    /\ temp_counter = 0
    /\ segment = NoSegment
    /\ temp_path = ""
    /\ params = NoParams
    /\ size = 0
    /\ outputs = <<>>
    /\ settings = EncodeSettings(0, 0, 0)
    /\ attempt = 0
    /\ ratio = NoRatio
    /\ reduced = None
    /\ files = {}
    /\ error = NoError
    /\ chunks = <<>>
    /\ seg_encodes = 0
    /\ fit_encodes = 0
    /\ oversized_seen = FALSE
    /\ GuiDefault

\* lib.rs:89, and the state the scheduler loop leaves at lib.rs:190 when it
\* has accepted count chunks, each encoded to its own temp path.
PathStem ==
    /\ pc = "stem_call"
    /\ LET stem == output_stem_from_args(options.input, options.output)
       IN  IF ~stem.ok
           THEN /\ Fail(stem.error)
                /\ UNCHANGED <<output_stem, temp_paths, temp_counter, files>>
           ELSE \E count \in ChunkCounts :
                  /\ output_stem' = stem.value
                  /\ temp_paths' =
                        [k \in 1..count |-> temp_output_path(stem.value, k - 1)]
                  /\ temp_counter' = count
                  /\ files' =
                        {[name |-> temp_output_path(stem.value, k - 1),
                          seg |-> NoSegment] : k \in 1..count}
                  /\ pc' = "rename"
                  /\ error' = error
    /\ UNCHANGED <<guiVars, options, info, target_bytes, initial, queue,
                   segment,
                   temp_path, params, size, outputs, settings, attempt, ratio,
                   reduced, chunks, seg_encodes, fit_encodes, oversized_seen>>

PathsNext ==
    \/ PathStem
    \/ RenameNext
    \/ Finish

SpecPaths == PathsInit /\ [][PathsNext]_vars

\* C17: chunk_output_path gives <stem>.gif, without a number, when the chunk
\* count is 1, and <stem>_NNN.gif with NNN = index + 1 zero-padded to 3
\* digits, next to the stem, when it is more; the names of distinct indices
\* differ; the count used is the final one, that of all accepted chunks.
C17_ChunkNames ==
    /\ \A i \in 1..Len(outputs) :
          outputs[i] = IF Len(temp_paths) = 1
                       THEN output_stem \o ".gif"
                       ELSE output_stem \o "_" \o ZeroPadded(i, 3) \o ".gif"
    /\ \A i, j \in 1..Len(outputs) : i # j => outputs[i] # outputs[j]

\* The last component of a path, and the path without its extension: the
\* extension starts at a "." that has no "." or "/" after it and is not the
\* first character of the last component; ".." has none.
LastComponent(p) ==
    CHOOSE c \in {SubSeq(p, k, Len(p)) : k \in 1..(Len(p) + 1)} :
        /\ ~Contains(c, "/")
        /\ Len(c) = Len(p) \/ Char(p, Len(p) - Len(c)) = "/"
WithoutExtension(p) ==
    LET dots == {k \in 2..Len(p) :
                    /\ Char(p, k) = "."
                    /\ Char(p, k - 1) # "/"
                    /\ \A j \in (k + 1)..Len(p) : Char(p, j) \notin {".", "/"}}
    IN  IF dots = {} \/ LastComponent(p) = ".." THEN p
        ELSE SubSeq(p, 1, (CHOOSE k \in dots : TRUE) - 1)

\* C18: once output_stem_from_args has been applied, without an explicit
\* output the stem is the input path without its extension (video.mp4 gives
\* video), or the call failed with InvalidInput when the input has no file
\* stem; with an explicit output the stem is that path without its
\* extension (out.gif gives out) and the path itself when it has none
\* (myoutput gives myoutput).
C18_StemDerivation ==
    pc # "stem_call" =>
        /\ IF options.output.none
           THEN IF LastComponent(options.input) \in {"", ".", ".."}
                THEN pc = "failed" /\ error.kind = "InvalidInput"
                ELSE /\ error.kind # "InvalidInput"
                     /\ output_stem = WithoutExtension(options.input)
           ELSE /\ error.kind # "InvalidInput"
                /\ output_stem = WithoutExtension(options.output.value)
        /\ (options.output.none /\ options.input = "video.mp4") =>
              output_stem = "video"
        /\ options.output = Some("out.gif") => output_stem = "out"
        /\ options.output = Some("myoutput") => output_stem = "myoutput"

\* The stem of the explicit output out.gif, given with the input video.mp4.
C18_Witness ==
    /\ pc = "rename"
    /\ options.input = "video.mp4"
    /\ options.output = Some("out.gif")
    /\ output_stem = "out"

(***************************************************************************)
(* resolve_color_index on its own: the entry of auto_encode                *)
(* (src/strategy.rs:69-73) for requested color counts drawn from a bounded *)
(* set.                                                                    *)
(***************************************************************************)
RequestedColors == 0..300 \cup {512, 1000}

ResolveInit ==
    /\ pc = "resolve_call"
    /\ initial \in [width : {480}, fps : {15}, colors : RequestedColors]
    /\ options = [input |-> "", output |-> None, input_exists |-> TRUE,
                  max_size |-> 0, width |-> 0, fps |-> 0, colors |-> 0,
                  chunk_secs |-> 0]
    /\ info = [width |-> 0, framerate |-> 0, duration_secs |-> 0]
    /\ target_bytes = 0
    /\ output_stem = ""
    /\ queue = <<>>
    /\ temp_paths = <<>>
    /\ temp_counter = 0
    /\ segment = NoSegment
    /\ temp_path = ""
    /\ params = NoParams
    /\ size = 0
    /\ outputs = <<>>
    /\ settings = EncodeSettings(0, 0, 0)
    /\ attempt = 0
    /\ ratio = NoRatio
    /\ reduced = None
    /\ files = {}
    /\ error = NoError
    /\ chunks = <<>>
    /\ seg_encodes = 0
    /\ fit_encodes = 0
    /\ oversized_seen = FALSE
    /\ GuiDefault

\* strategy.rs:69-73.
ResolveStep ==
    /\ pc = "resolve_call"
    /\ settings' = StartSettings(initial)
    /\ pc' = "resolve_return"
    /\ UNCHANGED <<guiVars, options, info, target_bytes, output_stem,
                   initial, queue,
                   temp_paths, temp_counter, segment, temp_path, params, size,
                   outputs, attempt, ratio, reduced, files, error, chunks,
                   seg_encodes, fit_encodes, oversized_seen>>

ResolveNext == ResolveStep

SpecResolve == ResolveInit /\ [][ResolveNext]_vars

\* What C19 says of the requested values in covered: the index returned is
\* that of the largest palette step <= the requested value; and for all
\* values, an exact match gives its own index and a value above 256 gives 0.
C19Rounds(covered) ==
    pc = "resolve_return" =>
        LET requested == initial.colors
            step == COLOR_STEPS[settings.color_index + 1]
        IN  /\ settings.color_index \in 0..(Len(COLOR_STEPS) - 1)
            /\ requested \in covered =>
                  /\ step <= requested
                  /\ \A j \in 1..Len(COLOR_STEPS) :
                        COLOR_STEPS[j] <= requested => COLOR_STEPS[j] <= step
            /\ \A j \in 1..Len(COLOR_STEPS) :
                  requested = COLOR_STEPS[j] => settings.color_index = j - 1
            /\ requested > 256 => settings.color_index = 0

MaxRuns == 2
MaxLines == 2

convertVars == <<options, info, target_bytes, output_stem, initial, queue,
                 temp_paths, temp_counter, segment, temp_path, params, size,
                 outputs, settings, attempt, ratio, reduced, files, pc, error,
                 chunks, seg_encodes, fit_encodes, oversized_seen>>

\* LogMessage (gui.rs:31-34).
Line(text) == [type |-> "Line", text |-> text]
Finished(success, message) ==
    [type |-> "Finished", success |-> success, message |-> message]

\* mpsc::channel() (gui.rs:77) and the thread it is handed to (gui.rs:80).
NewChannel == [queue |-> <<>>, sender_alive |-> TRUE, receiver_alive |-> TRUE]
NewWorker == [state |-> "converting", lines |-> 0, result |-> "none"]

\* Sender::send: the message is queued unless the receiver is gone, in
\* which case send fails and the worker ignores it (let _ =).
Send(chs, k, msg) ==
    IF chs[k].receiver_alive THEN [chs EXCEPT ![k].queue = Append(@, msg)]
    ELSE chs

\* A variant of DropSender in which a clone of the sender outlives the
\* thread.
DropSenderKept(chs, k) == chs

\* Dropping the sender when the thread ends; dropping a receiver.
DropSender(chs, k) == [chs EXCEPT ![k].sender_alive = FALSE]
DropReceiver(chs, receiver) ==
    IF receiver.none THEN chs
    ELSE [chs EXCEPT ![receiver.value].receiver_alive = FALSE]

\* A variant of can_convert that leaves the button enabled while a
\* conversion is running.
can_convert_while_running(u) == ~u.input_path.none

\* gui.rs:228: the Convert button is enabled.
can_convert(u) == ~u.input_path.none /\ u.status # Running

\* A variant of start_conversion that does not clear the log.
start_conversion_keeps_log(u, receiver) ==
    IF u.input_path.none THEN u
    ELSE [u EXCEPT !.status = Running, !.log_receiver = Some(receiver)]

\* A variant of start_conversion that does not keep the receiver.
start_conversion_no_receiver(u, receiver) ==
    IF u.input_path.none THEN u
    ELSE [u EXCEPT !.log_lines = <<>>, !.status = Running]

\* gui.rs:54-78: what start_conversion does to the ClipprUi.
start_conversion(u, receiver) ==
    IF u.input_path.none THEN u
    ELSE [u EXCEPT !.log_lines = <<>>, !.status = Running,
                   !.log_receiver = Some(receiver)]

\* gui.rs:55-58 and 77-99: the channels and the threads start_conversion
\* leaves: none new when no input is selected; otherwise a new channel,
\* whose receiver replaces (and so drops) the one held, and a new thread.
channels_after_start(u, chs) ==
    IF u.input_path.none THEN chs
    ELSE Append(DropReceiver(chs, u.log_receiver), NewChannel)
workers_after_start(u, ws) ==
    IF u.input_path.none THEN ws ELSE Append(ws, NewWorker)

\* gui.rs:108-131: the loop of drain_log_messages on the channel ch; it
\* gives the ClipprUi and the channel it leaves.
RECURSIVE DrainLoop(_, _)
DrainLoop(u, ch) ==
    IF ch.queue = <<>>
    THEN IF ch.sender_alive
         THEN [ui |-> u, channel |-> ch]
         ELSE [ui |-> [u EXCEPT !.status = Failed(Text(0, "lost", 0)),
                                !.log_receiver = None],
               channel |-> [ch EXCEPT !.receiver_alive = FALSE]]
    ELSE LET msg == Head(ch.queue)
             rest == [ch EXCEPT !.queue = Tail(@)]
         IN  IF msg.type = "Line"
             THEN DrainLoop([u EXCEPT !.log_lines = Append(@, msg.text)], rest)
             ELSE [ui |-> [u EXCEPT !.log_lines = Append(@, msg.message),
                                    !.status = IF msg.success THEN Done
                                               ELSE Failed(msg.message),
                                    !.log_receiver = None],
                   channel |-> [rest EXCEPT !.receiver_alive = FALSE]]

GuiInit ==
    /\ pc = "gui"
    /\ options = [input |-> "", output |-> None, input_exists |-> TRUE,
                  max_size |-> 0, width |-> 0, fps |-> 0, colors |-> 0,
                  chunk_secs |-> 0]
    /\ info = [width |-> 0, framerate |-> 0, duration_secs |-> 0]
    /\ target_bytes = 0
    /\ output_stem = ""
    /\ initial = [width |-> 0, fps |-> 0, colors |-> 0]
    /\ queue = <<>>
    /\ temp_paths = <<>>
    /\ temp_counter = 0
    /\ segment = NoSegment
    /\ temp_path = ""
    /\ params = NoParams
    /\ size = 0
    /\ outputs = <<>>
    /\ settings = EncodeSettings(0, 0, 0)
    /\ attempt = 0
    /\ ratio = NoRatio
    /\ reduced = None
    /\ files = {}
    /\ error = NoError
    /\ chunks = <<>>
    /\ seg_encodes = 0
    /\ fit_encodes = 0
    /\ oversized_seen = FALSE
    /\ GuiDefault

\* gui.rs:167-173: a file is picked in the Browse dialog.
BrowseInput ==
    /\ ui' = [ui EXCEPT !.input_path = Some("v.mp4")]
    /\ UNCHANGED <<should_exit, channels, workers, convertVars>>

\* gui.rs:228-234 and 54-100: the Convert button is enabled and clicked;
\* start_conversion makes a channel, keeps its receiver (dropping the one
\* it held) and spawns the worker with the sender.
ConvertClicked ==
    /\ can_convert(ui)
    /\ Len(workers) < MaxRuns
    /\ ui' = start_conversion(ui, Len(channels) + 1)
    /\ channels' = channels_after_start(ui, channels)
    /\ workers' = workers_after_start(ui, workers)
    /\ UNCHANGED <<should_exit, convertVars>>

\* gui.rs:82-84: convert reports a progress line and the worker sends it.
WorkerLine(k) ==
    /\ workers[k].state = "converting"
    /\ workers[k].lines < MaxLines
    /\ workers' = [workers EXCEPT ![k].lines = @ + 1]
    /\ channels' = Send(channels, k,
                        Line(Text(k, "line", workers[k].lines + 1)))
    /\ UNCHANGED <<ui, should_exit, convertVars>>

\* gui.rs:85-99: convert has returned; the worker sends the outcome and
\* ends, which drops its sender.
WorkerFinished(k) ==
    /\ workers[k].state = "converting"
    /\ \E success \in BOOLEAN :
         /\ workers' = [workers EXCEPT
                           ![k].state = "exited",
                           ![k].result = IF success THEN "ok" ELSE "err"]
         /\ channels' =
               DropSender(Send(channels, k,
                               Finished(success,
                                        Text(k, IF success THEN "ok" ELSE "err",
                                             0))), k)
    /\ UNCHANGED <<ui, should_exit, convertVars>>

\* The worker thread ends without sending an outcome (it panicked), the
\* case drain_log_messages meets as Disconnected (gui.rs:124-129).
WorkerLost(k) ==
    /\ workers[k].state = "converting"
    /\ workers' = [workers EXCEPT ![k].state = "exited"]
    /\ channels' = DropSender(channels, k)
    /\ UNCHANGED <<ui, should_exit, convertVars>>

\* gui.rs:102-132, called every frame from run_systems (gui.rs:264-266).
DrainLogMessages ==
    /\ IF ui.log_receiver.none
       THEN UNCHANGED <<ui, channels>>
       ELSE LET k == ui.log_receiver.value
                drained == DrainLoop(ui, channels[k])
            IN  /\ ui' = drained.ui
                /\ channels' = [channels EXCEPT ![k] = drained.channel]
    /\ UNCHANGED <<should_exit, workers, convertVars>>

\* A variant of on_keyboard_input that does not look at the status.
on_keyboard_input_any_status(exit_flag, status, key_code, key_state) ==
    IF key_code = "KeyQ" /\ key_state = "Pressed" THEN TRUE ELSE exit_flag

\* gui.rs:268-274: the exit flag on_keyboard_input leaves; it writes
\* nothing else.
on_keyboard_input(exit_flag, status, key_code, key_state) ==
    IF key_code = "KeyQ" /\ key_state = "Pressed" /\ status # Running
    THEN TRUE
    ELSE exit_flag

\* gui.rs:268-274: Q is pressed.
KeyQPressed ==
    /\ should_exit' = on_keyboard_input(should_exit, ui.status, "KeyQ",
                                        "Pressed")
    /\ UNCHANGED <<ui, channels, workers, convertVars>>

GuiNext ==
    \/ BrowseInput
    \/ ConvertClicked
    \/ DrainLogMessages
    \/ KeyQPressed
    \/ \E k \in 1..Len(workers) : WorkerLine(k)
    \/ \E k \in 1..Len(workers) : WorkerFinished(k)
    \/ \E k \in 1..Len(workers) : WorkerLost(k)

SpecGui == GuiInit /\ [][GuiNext]_vars

(***************************************************************************)
(* C20: GUI progress channel.  With r the most recently started conversion *)
(* and the log of the UI: every entry of the log comes from conversion r   *)
(* (no entry of an earlier run is left once a new run has started); the    *)
(* progress lines in it are lines 1, 2, ... of r in the order the worker   *)
(* sent them, none before it was sent; an outcome message is the last      *)
(* entry and comes after every line the worker sent; the status is Done    *)
(* only if conversion r reported success, with its message last in the     *)
(* log, it is Failed only if r ended without reporting success, and a      *)
(* conversion that reported success never leaves the status Failed or      *)
(* Idle.                                                                   *)
(***************************************************************************)
C20_ProgressChannel ==
    LET r == Len(workers)
        log == ui.log_lines
    IN  /\ \A i \in 1..Len(log) :
               /\ log[i].run = r
               /\ log[i].kind = "line" =>
                      /\ log[i].n = i
                      /\ i <= workers[r].lines
               /\ log[i].kind # "line" =>
                      /\ i = Len(log)
                      /\ i = workers[r].lines + 1
                      /\ workers[r].state = "exited"
                      /\ ui.status # Running
        /\ ui.status = Done =>
               /\ r >= 1
               /\ workers[r].result = "ok"
               /\ log # <<>>
               /\ log[Len(log)] = Text(r, "ok", 0)
        /\ ui.status.kind = "Failed" =>
               /\ r >= 1
               /\ workers[r].state = "exited"
               /\ workers[r].result # "ok"
        /\ (r >= 1 /\ workers[r].result = "ok" /\ ui.status # Running) =>
               ui.status = Done

\* The second conversion has reported success after a first one that sent
\* lines too: its two lines and its outcome message are the whole log.
C20_Witness ==
    /\ Len(workers) = 2
    /\ workers[1].lines >= 1
    /\ ui.status = Done
    /\ Len(ui.log_lines) = 3

(***************************************************************************)
(* C21: every segment the scheduler dequeues is first encoded with the     *)
(* initial settings.  Once convert has computed initial (width and fps     *)
(* capped by the probed video, colors as requested) no step changes it;    *)
(* the step that dequeues a segment makes the first encoder invocation for *)
(* it, with the width, fps and colors of initial and the segment's range,  *)
(* whatever settings an earlier auto_encode call ended with; and           *)
(* auto_encode encodes a segment only after that invocation.               *)
(***************************************************************************)
C21_InitialSettingsFirst ==
    [][/\ pc # "start" => initial' = initial
       /\ pc' = "loop" =>
              /\ initial'.width = Min(options.width, info'.width)
              /\ initial'.fps = Min(options.fps,
                                    FramerateCeil(info'.framerate))
              /\ initial'.colors = options.colors
       /\ (pc = "loop" /\ queue # <<>>) =>
              /\ segment' = Head(queue)
              /\ seg_encodes' = 1
              /\ params' = [width |-> initial.width, fps |-> initial.fps,
                            colors |-> initial.colors,
                            start_secs |-> Head(queue).start_secs,
                            duration_secs |-> Head(queue).duration_secs]
       /\ seg_encodes' > 1 =>
              /\ segment' = segment
              /\ seg_encodes >= 1]_vars

\* A segment has just been given its first encode, with the initial
\* settings, after auto_encode degraded an earlier segment and had it
\* accepted.
C21_Witness ==
    /\ pc = "sched_check"
    /\ seg_encodes = 1
    /\ attempt > 0
    /\ settings # StartSettings(initial)
    /\ Len(chunks) >= 1
    /\ params.width = initial.width
    /\ params.fps = initial.fps
    /\ params.colors = initial.colors
    /\ params.width > settings.width

\* The names of the temp-named files on disk, and the accepted temp paths.
TempNames == {f.name : f \in TempFiles}
AcceptedTempPaths == {temp_paths[i] : i \in 1..Len(temp_paths)}

(***************************************************************************)
(* C22: temp files.  In the scheduler loop the temp files on disk are the  *)
(* files of the accepted chunks, all of them, plus at most one file, the   *)
(* one at the temp path in progress; between iterations there is none in   *)
(* progress.  Once the scheduler's encode of a segment came back oversized *)
(* and the loop goes on to bisect or to auto_encode, the file of that      *)
(* encode is gone, so it is gone at every later encoder invocation.  After *)
(* a successful conversion no temp-named file is on disk.                  *)
(***************************************************************************)
C22_TempFiles ==
    /\ pc \in {"loop", "sched_check", "sched_split", "fit_encode",
                "fit_check"} =>
           /\ AcceptedTempPaths \subseteq TempNames
           /\ TempNames \subseteq AcceptedTempPaths \cup {temp_path}
           /\ Cardinality(TempNames \ AcceptedTempPaths) <= 1
    /\ pc = "loop" => TempNames = AcceptedTempPaths
    /\ pc = "sched_split" => temp_path \notin TempNames
    /\ pc \in {"fit_encode", "fit_check"} =>
           /\ temp_path = temp_output_path(output_stem, temp_counter - 1)
           /\ temp_output_path(output_stem, temp_counter - 2) \notin TempNames
    /\ (pc = "fit_encode" /\ fit_encodes = 0) =>
           TempNames = AcceptedTempPaths
    /\ pc = "done" => TempNames = {}

\* A conversion has succeeded after an oversized scheduler encode and a
\* run of auto_encode; its chunks are on disk under their final names only.
C22_Witness ==
    /\ pc = "done"
    /\ oversized_seen
    /\ fit_encodes >= 2
    /\ Len(outputs) >= 2
    /\ {f.name : f \in files} = {outputs[i] : i \in 1..Len(outputs)}

(***************************************************************************)
(* C23: whenever convert has passed validation and the encoder has been    *)
(* invoked, the byte budget target_bytes is at least one byte.             *)
(***************************************************************************)
C23_PositiveBudget ==
    (ValidationError(options) = NoError /\ EncoderInvoked) =>
        target_bytes >= 1

\* What C24 says of a step of auto_encode from one attempt's settings to
\* the next, with the range of the ratio left open: the fps changes only
\* from a width <= MIN_WIDTH, the palette only from a width <= MIN_WIDTH
\* and an fps <= MIN_FPS, and the ratio handed to reduce_params is in
\* range.
C24Order(ratio_in_range(_)) ==
    (pc = "fit_check" /\ size > target_bytes) =>
        /\ ratio_in_range(ratio')
        /\ ratio' = [num |-> target_bytes * 9, den |-> size * 10]
        /\ settings'.fps # settings.fps => settings.width <= MIN_WIDTH
        /\ settings'.color_index # settings.color_index =>
               /\ settings.width <= MIN_WIDTH
               /\ settings.fps <= MIN_FPS

WorkerEnds == \E k \in 1..Len(workers) : WorkerFinished(k) \/ WorkerLost(k)

SpecGuiLive ==
    /\ GuiInit
    /\ [][GuiNext]_vars
    /\ WF_vars(DrainLogMessages)
    /\ WF_vars(WorkerEnds)

\* The worker of the conversion in progress has ended without an outcome.
WorkerLostOutcome ==
    /\ ui.status = Running
    /\ workers[Len(workers)].state = "exited"
    /\ workers[Len(workers)].result = "none"

(***************************************************************************)
(* C25: GUI liveness.  With a worker that terminates and a UI that keeps   *)
(* draining, a status of Running always leads to Done or Failed; and when  *)
(* the worker of the running conversion has ended without sending an       *)
(* outcome, the status becomes Failed with the lost-connection message.    *)
(***************************************************************************)
C25_RunningSettles ==
    /\ (ui.status = Running) ~> (ui.status.kind \in {"Done", "Failed"})
    /\ WorkerLostOutcome ~> (ui.status = Failed(Text(0, "lost", 0)))

\* A conversion whose worker ended without an outcome, after sending a
\* line, has been marked Failed by the drain.
C25_Witness ==
    /\ Len(workers) >= 1
    /\ workers[Len(workers)].state = "exited"
    /\ workers[Len(workers)].result = "none"
    /\ workers[Len(workers)].lines >= 1
    /\ ui.status = Failed(Text(0, "lost", 0))
    /\ ui.log_receiver = None

\* The workers that are doing conversion work, in a list of workers.
Converting(ws) == {k \in 1..Len(ws) : ws[k].state = "converting"}

(***************************************************************************)
(* C26: at most one conversion worker is converting at any time, and it is *)
(* the worker of the conversion the UI shows as Running.  A step starts a  *)
(* conversion only with an input selected and a status other than Running, *)
(* and it starts one; the status leaves Running only when the worker of    *)
(* the current conversion has ended (it sent its outcome, or it is gone    *)
(* and its sender dropped); and start_conversion with no input selected    *)
(* changes nothing: not the ClipprUi, not the channels, not the threads.   *)
(***************************************************************************)
C26_OneWorker ==
    [][/\ Cardinality(Converting(workers')) <= 1
       /\ \A k \in Converting(workers') :
              k = Len(workers') /\ ui'.status = Running
       /\ workers' # workers /\ Len(workers') # Len(workers) =>
              /\ ~ui.input_path.none
              /\ ui.status # Running
              /\ Converting(workers) = {}
              /\ Len(workers') = Len(workers) + 1
              /\ ui'.status = Running
       /\ (ui.status = Running /\ ui'.status # Running) =>
              /\ workers[Len(workers)].state = "exited"
              /\ ~channels[Len(workers)].sender_alive
              /\ workers' = workers
       /\ ui.input_path.none =>
              /\ start_conversion(ui, Len(channels) + 1) = ui
              /\ channels_after_start(ui, channels) = channels
              /\ workers_after_start(ui, workers) = workers]_vars

\* A second conversion is running, started after the worker of the first
\* had ended; its worker is the only one converting.
C26_Witness ==
    /\ Len(workers) = 2
    /\ workers[1].state = "exited"
    /\ workers[2].state = "converting"
    /\ ui.status = Running
    /\ ui.log_receiver = Some(2)

(***************************************************************************)
(* C27: after any sequence of start_conversion and drain_log_messages      *)
(* steps the status is Running if and only if log_receiver is Some, and    *)
(* then it is the receiver of the channel of the latest conversion, still  *)
(* open; with Idle, Done and Failed no receiver is held.                   *)
(***************************************************************************)
C27_RunningIffReceiver ==
    /\ ui.status = Running <=> ~ui.log_receiver.none
    /\ ui.status.kind \in {"Idle", "Done", "Failed"} => ui.log_receiver = None
    /\ ~ui.log_receiver.none =>
           /\ ui.log_receiver.value = Len(channels)
           /\ channels[ui.log_receiver.value].receiver_alive
    /\ \A k \in 1..Len(channels) :
           channels[k].receiver_alive => ui.log_receiver = Some(k)

\* start_conversion and then a drain that met the outcome: the conversion
\* is Done and the receiver it held has been dropped.
C27_Witness ==
    /\ Len(workers) = 1
    /\ ui.status = Done
    /\ ui.log_receiver = None
    /\ ~channels[1].receiver_alive

(***************************************************************************)
(* auto_encode on its own (src/strategy.rs:61-107), called as convert      *)
(* calls it (clippr/src/lib.rs:167-183): the scheduler has encoded a       *)
(* segment too short to split with the initial settings, found it          *)
(* oversized and removed its temp file.  The initial settings range over   *)
(* more values than in Spec, the requested colors over the palette steps,  *)
(* values between and around them and the ends of the range the front end *)
(* offers (gui.rs:200).                                                    *)
(***************************************************************************)
FitterWidths == {480, 240, 200}
FitterFps == {15, 8}
FitterColors == {2, 16, 31, 32, 50, 64, 128, 256, 300}
FitterBudgets == {1, 200}

FitterInit ==
    /\ options \in [input : {"v.mp4"}, output : {None}, input_exists : {TRUE},
                     max_size : FitterBudgets, width : FitterWidths,
                     fps : FitterFps, colors : FitterColors,
                     chunk_secs : {MIN_SPLIT_DURATION}]
    /\ info = [width |-> 1920, framerate |-> 29970,
               duration_secs |-> MIN_SPLIT_DURATION]
    /\ target_bytes = TargetBytes(options.max_size)
    /\ output_stem = "v"
    /\ initial = InitialParams(options, info)
    /\ queue = <<>>
    /\ temp_paths = <<>>
    /\ temp_counter = 1
    /\ segment = Segment(0, MIN_SPLIT_DURATION)
    /\ temp_path = temp_output_path("v", 0)
    /\ params = SchedulerParams(initial, segment)
    /\ size \in {s \in EncoderSizes : ~SchedFits(s, target_bytes)}
    /\ outputs = <<>>
    /\ settings = EncodeSettings(0, 0, 0)
    /\ attempt = 0
    /\ ratio = NoRatio
    /\ reduced = None
    /\ files = {}
    /\ pc = "sched_split"
    /\ error = NoError
    /\ chunks = <<>>
    /\ seg_encodes = 1
    /\ fit_encodes = 0
    /\ oversized_seen = TRUE
    /\ GuiDefault

FitterNext ==
    \/ Delegate
    \/ FitEncode
    \/ FitAccept
    \/ FitReduce

SpecFitter == FitterInit /\ [][FitterNext]_vars

(***************************************************************************)
(* C28: the settings of the successive encoder invocations of one run of   *)
(* auto_encode never increase in quality: each attempt after the first has *)
(* a width, an fps and a palette size <= those of the attempt before it,   *)
(* and every attempt has a width <= the initial width, an fps <= the       *)
(* initial fps and a palette size <= the requested colors, for every       *)
(* requested colors value.                                                 *)
(***************************************************************************)
C28_NeverIncreases ==
    [][(pc = "fit_encode" /\ fit_encodes' = fit_encodes + 1) =>
          /\ params'.width <= initial.width
          /\ params'.fps <= initial.fps
          /\ params'.colors <= options.colors
          /\ fit_encodes >= 1 =>
                 /\ params'.width <= params.width
                 /\ params'.fps <= params.fps
                 /\ params'.colors <= params.colors]_vars

(***************************************************************************)
(* C29: when the requested colors value is one of 256, 128, 64 and 32, the *)
(* first encoder invocation of auto_encode for a segment has exactly the   *)
(* width, fps, colors and time range of the scheduler's encode of that     *)
(* segment, which came just before it and was oversized.  So when the      *)
(* encoder reports the same size for the same parameters, that first       *)
(* attempt does not fit; and of the at most MAX_ATTEMPTS attempts at most  *)
(* 4 are made with degraded settings.                                      *)
(***************************************************************************)
C29_FirstAttemptRepeats ==
    [][(pc = "fit_encode" /\ fit_encodes' = fit_encodes + 1) =>
          /\ fit_encodes' - 1 <= 4
          /\ (fit_encodes = 0 /\ options.colors \in {256, 128, 64, 32}) =>
                 /\ seg_encodes = 1
                 /\ size > target_bytes
                 /\ params.start_secs = segment.start_secs
                 /\ params.duration_secs = segment.duration_secs
                 /\ params' = params
                 /\ (pc' = "fit_check" /\ size' = size) =>
                        size' > target_bytes']_vars

\* The first attempt of auto_encode, with 256 colors requested, has encoded
\* the segment with the parameters of the scheduler's oversized encode and
\* got the same oversized size.
C29_Witness ==
    /\ pc = "fit_check"
    /\ fit_encodes = 1
    /\ seg_encodes = 2
    /\ options.colors = 256
    /\ params = [width |-> initial.width, fps |-> initial.fps,
                 colors |-> 256, start_secs |-> segment.start_secs,
                 duration_secs |-> segment.duration_secs]
    /\ size = 250
    /\ size > target_bytes
    /\ target_bytes >= 1

(***************************************************************************)
(* C30: a run of auto_encode that starts with a width > MIN_WIDTH, an      *)
(* fps > MIN_FPS and color index 0 never invokes the encoder with the      *)
(* smallest palette, 32 colors, nor with all three axes at the bottom of   *)
(* the ladder: its attempts use 64 colors or more.  After the fifth        *)
(* oversized attempt the run fails, with TargetUnreachable(5) when         *)
(* reduce_params still had a step to give, and that step is not encoded.   *)
(***************************************************************************)
C30_BottomNeverEncoded ==
    [][(/\ initial.width > MIN_WIDTH
        /\ initial.fps > MIN_FPS
        /\ resolve_color_index(initial.colors) = 0
        /\ pc \in {"fit_encode", "fit_check"}) =>
          /\ fit_encodes' > fit_encodes =>
                 /\ params'.colors # 32
                 /\ params'.colors >= 64
                 /\ fit_encodes' <= MAX_ATTEMPTS
          /\ (pc = "fit_check" /\ fit_encodes = 5 /\ size > target_bytes) =>
                 /\ pc' = "failed"
                 /\ error' = TargetUnreachable(5)
                 /\ fit_encodes' = fit_encodes
                 /\ params' = params]_vars

\* A run started from 480 px, 15 fps and 256 colors has failed after five
\* oversized attempts, the fifth with 64 colors; the step to 32 colors was
\* computed and not encoded.
C30_Witness ==
    /\ pc = "failed"
    /\ error = TargetUnreachable(5)
    /\ initial = [width |-> 480, fps |-> 15, colors |-> 256]
    /\ fit_encodes = 5
    /\ params.colors = 64
    /\ settings = EncodeSettings(MIN_WIDTH, MIN_FPS, 3)

\* The halvings that bring a duration to MIN_SPLIT_DURATION or below.
RECURSIVE Halvings(_)
Halvings(d) ==
    IF d <= MIN_SPLIT_DURATION THEN 0 ELSE 1 + Halvings((d + 1) \div 2)

\* The duration of the initial segment that the range of seg lies in.
InitialDuration(seg, chunk_secs, total_secs) ==
    Min(chunk_secs, total_secs - (seg.start_secs \div chunk_secs) * chunk_secs)

\* seg is an initial segment or was made from one by k >= 1 bisections,
\* with k within the halvings that bring chunk_secs to MIN_SPLIT_DURATION
\* or below, and then it is longer than MIN_SPLIT_DURATION / 2.
WithinDepth(seg, chunk_secs, total_secs) ==
    \E k \in 0..Halvings(chunk_secs) :
        /\ seg.duration_secs * (2 ^ k)
               = InitialDuration(seg, chunk_secs, total_secs)
        /\ k >= 1 => 2 * seg.duration_secs > MIN_SPLIT_DURATION

(***************************************************************************)
(* C31: bisection and the work per segment.  A bisection puts two halves   *)
(* of the same duration, longer than MIN_SPLIT_DURATION / 2, in place of   *)
(* the segment; every segment queued or in progress is at a               *)
(* bisection depth within the halvings that bring chunk_secs to            *)
(* MIN_SPLIT_DURATION or below; the scheduler encodes the segment it       *)
(* dequeued once, every further encode of it being an attempt of           *)
(* auto_encode, so that a segment causes at most 1 + MAX_ATTEMPTS encoder  *)
(* invocations.                                                            *)
(***************************************************************************)
C31_BisectionBounds ==
    [][/\ (pc = "sched_split" /\ Len(queue') = Len(queue) + 2) =>
              /\ queue'[1].duration_secs = queue'[2].duration_secs
              /\ queue'[1].duration_secs + queue'[2].duration_secs
                     = segment.duration_secs
              /\ queue'[1].start_secs = segment.start_secs
              /\ queue'[2].start_secs
                     = segment.start_secs + queue'[1].duration_secs
              /\ 2 * queue'[1].duration_secs > MIN_SPLIT_DURATION
       /\ pc' \in {"loop", "sched_check", "sched_split", "fit_encode",
                   "fit_check"} =>
              /\ \A i \in 1..Len(queue') :
                     WithinDepth(queue'[i], options'.chunk_secs,
                                 info'.duration_secs)
              /\ pc' # "loop" =>
                     WithinDepth(segment', options'.chunk_secs,
                                 info'.duration_secs)
       /\ pc' \in {"sched_check", "sched_split"} => seg_encodes' = 1
       /\ pc' \in {"fit_encode", "fit_check"} =>
              seg_encodes' = 1 + fit_encodes'
       /\ seg_encodes' <= 1 + MAX_ATTEMPTS
       /\ seg_encodes' # seg_encodes =>
              \/ pc = "loop" /\ seg_encodes' = 1
              \/ pc = "fit_encode" /\ seg_encodes' = seg_encodes + 1]_vars

\* A segment two bisections below an initial segment of chunk_secs, too
\* short to split, has had its scheduler encode and MAX_ATTEMPTS attempts
\* of auto_encode.
C31_Witness ==
    /\ pc = "fit_check"
    /\ seg_encodes = 1 + MAX_ATTEMPTS
    /\ segment.duration_secs * 4 = options.chunk_secs
    /\ segment.duration_secs <= MIN_SPLIT_DURATION
    /\ 2 * segment.duration_secs > MIN_SPLIT_DURATION

(***************************************************************************)
(* C32: pressing Q requests the window's exit only when the status is not  *)
(* Running.  The exit flag is raised only by a step taken with a status    *)
(* other than Running, and that step changes nothing else; in every state  *)
(* with a conversion Running the key press leaves the exit flag as it is,  *)
(* in every other state it raises it; and releasing Q or pressing another  *)
(* key leaves it as it is.                                                 *)
(***************************************************************************)
C32_QuitOnlyWhenNotRunning ==
    [][/\ should_exit' # should_exit =>
              /\ ui.status # Running
              /\ should_exit'
              /\ ui' = ui
              /\ channels' = channels
              /\ workers' = workers
       /\ ui'.status = Running =>
              on_keyboard_input(should_exit', ui'.status, "KeyQ", "Pressed")
                  = should_exit'
       /\ ui'.status # Running =>
              on_keyboard_input(should_exit', ui'.status, "KeyQ", "Pressed")
       /\ \A key \in {"KeyQ", "KeyA"}, state \in {"Pressed", "Released"} :
              <<key, state>> # <<"KeyQ", "Pressed">> =>
                  on_keyboard_input(should_exit', ui'.status, key, state)
                      = should_exit']_vars

\* Q was pressed after a conversion ended: the exit is requested, and the
\* log and the status of the conversion are as the drain left them.
C32_Witness ==
    /\ should_exit
    /\ Len(workers) = 1
    /\ ui.status = Done
    /\ Len(ui.log_lines) >= 1

====
